---- MODULE Spec2Model ----
(***************************************************************************)
(* Mochi Pop (src/game.js): the match-3 board, the swap + cascade engine,  *)
(* the gravity refill, the shuffle, the pointer input and the game timer,  *)
(* as a state machine.  Every await of trySwap / processCascades /         *)
(* applyGravityAndFill is a point where another event handler can run;     *)
(* the code between two awaits is one atomic step.                         *)
(***************************************************************************)
EXTENDS Integers, Sequences, FiniteSets, TLC

(* ---------- constants (game.js 9-17, 29, 876) ---------- *)
COLS == 6
ROWS == 8
NUM_COLORS == 3
GAME_TIME == 45
POWERUP_NONE == 0
POWERUP_BOMB == 1
POWERUP_LINE == 2
Empty == -1
SwipeMin == 12

Rows == 0 .. (ROWS - 1)
Cols == 0 .. (COLS - 1)
Cells == 0 .. (ROWS * COLS - 1)

RowOf(idx) == idx \div COLS
ColOf(idx) == idx % COLS

(* ---------- the random source ---------- *)
(* Math.random() is a value u / RandomRes with u in 0 .. RandomRes-1.      *)
RandomRes == 48

rng(max, u) == (u * max) \div RandomRes

(* ---------- small helpers ---------- *)
Max2(a, b) == IF a >= b THEN a ELSE b
Min2(a, b) == IF a <= b THEN a ELSE b
Abs(a) == IF a < 0 THEN 0 - a ELSE a
clamp(v, lo, hi) == Max2(lo, Min2(hi, v))

Range(s) == {s[i] : i \in 1 .. Len(s)}
InSeq(s, x) == \E i \in 1 .. Len(s) : s[i] = x

(* a [row][col] array given as a sequence of rows, made 0-based *)
FromRows(m) == [r \in Rows |-> [c \in Cols |-> m[r + 1][c + 1]]]
Fill2(v) == [r \in Rows |-> [c \in Cols |-> v]]
Set2(g, r, c, v) == [g EXCEPT ![r][c] = v]

(* [0,1,2].filter(v => v !== x) *)
Without(avail, x) == SelectSeq(avail, LAMBDA v : v # x)

(* ---------- safeColor / initGrid ---------- *)
safeColorAvail(g, r, c) ==
  LET a0 == <<0, 1, 2>>
      a1 == IF c >= 2 /\ g[r][c - 1] = g[r][c - 2] THEN Without(a0, g[r][c - 1]) ELSE a0
      a2 == IF r >= 2 /\ g[r - 1][c] = g[r - 2][c] THEN Without(a1, g[r - 1][c]) ELSE a1
  IN a2

safeColor(g, r, c, u) ==
  LET avail == safeColorAvail(g, r, c)
  IN avail[rng(Len(avail), u) + 1]

RECURSIVE initFill(_, _, _)
initFill(g, idx, tape) ==
  IF idx >= ROWS * COLS THEN g
  ELSE LET r == RowOf(idx)
           c == ColOf(idx)
       IN initFill(Set2(g, r, c, safeColor(g, r, c, tape[r][c])), idx + 1, tape)

(* ---------- match detection ---------- *)
RECURSIVE HScan(_, _, _, _, _)
HScan(g, r, c, run, acc) ==
  IF c >= COLS
  THEN IF run >= 3 THEN acc \cup {r * COLS + k : k \in (COLS - run) .. (COLS - 1)} ELSE acc
  ELSE IF g[r][c] = g[r][c - 1] /\ g[r][c] # Empty
       THEN HScan(g, r, c + 1, run + 1, acc)
       ELSE HScan(g, r, c + 1, 1,
                  IF run >= 3 THEN acc \cup {r * COLS + k : k \in (c - run) .. (c - 1)} ELSE acc)

RECURSIVE VScan(_, _, _, _, _)
VScan(g, c, r, run, acc) ==
  IF r >= ROWS
  THEN IF run >= 3 THEN acc \cup {k * COLS + c : k \in (ROWS - run) .. (ROWS - 1)} ELSE acc
  ELSE IF g[r][c] = g[r - 1][c] /\ g[r][c] # Empty
       THEN VScan(g, c, r + 1, run + 1, acc)
       ELSE VScan(g, c, r + 1, 1,
                  IF run >= 3 THEN acc \cup {k * COLS + c : k \in (r - run) .. (r - 1)} ELSE acc)

(* a detection that takes Empty for a colour of its own *)
matchesWithEmpty(g) ==
  LET g2 == [r \in Rows |-> [c \in Cols |-> IF g[r][c] = Empty THEN NUM_COLORS ELSE g[r][c]]]
  IN UNION {HScan(g2, r, 1, 1, {}) : r \in Rows} \cup
     UNION {VScan(g2, c, 1, 1, {}) : c \in Cols}

findMatches(g) ==
  UNION {HScan(g, r, 1, 1, {}) : r \in Rows} \cup UNION {VScan(g, c, 1, 1, {}) : c \in Cols}

(* the cells of a run as the Set the code builds: insertion order kept *)
HCells(r, from, to) == [i \in 1 .. (to - from) |-> r * COLS + (from + i - 1)]
VCells(c, from, to) == [i \in 1 .. (to - from) |-> (from + i - 1) * COLS + c]

RECURSIVE HGroups(_, _, _, _, _)
HGroups(g, r, c, runStart, acc) ==
  IF c > COLS THEN acc
  ELSE IF c < COLS /\ g[r][c] = g[r][runStart] /\ g[r][c] # Empty
       THEN HGroups(g, r, c + 1, runStart, acc)
       ELSE HGroups(g, r, c + 1, c,
                    IF c - runStart >= 3
                    THEN Append(acc, [cells |-> HCells(r, runStart, c),
                                      length |-> c - runStart, horizontal |-> TRUE])
                    ELSE acc)

RECURSIVE VGroups(_, _, _, _, _)
VGroups(g, c, r, runStart, acc) ==
  IF r > ROWS THEN acc
  ELSE IF r < ROWS /\ g[r][c] = g[runStart][c] /\ g[r][c] # Empty
       THEN VGroups(g, c, r + 1, runStart, acc)
       ELSE VGroups(g, c, r + 1, r,
                    IF r - runStart >= 3
                    THEN Append(acc, [cells |-> VCells(c, runStart, r),
                                      length |-> r - runStart, horizontal |-> FALSE])
                    ELSE acc)

(* the groups of rows r.. (of columns c..), in scan order *)
RECURSIVE AllHGroups(_, _)
AllHGroups(g, r) ==
  IF r >= ROWS THEN <<>> ELSE HGroups(g, r, 1, 0, <<>>) \o AllHGroups(g, r + 1)

RECURSIVE AllVGroups(_, _)
AllVGroups(g, c) ==
  IF c >= COLS THEN <<>> ELSE VGroups(g, c, 1, 0, <<>>) \o AllVGroups(g, c + 1)

findMatchGroups(g) == AllHGroups(g, 0) \o AllVGroups(g, 0)

(* ---------- mergeOverlappingGroups ---------- *)
(* Set.add of every element of b to a: new elements go to the end *)
RECURSIVE AddAll(_, _, _)
AddAll(a, b, i) ==
  IF i > Len(b) THEN a
  ELSE AddAll(IF InSeq(a, b[i]) THEN a ELSE Append(a, b[i]), b, i + 1)

Overlap(a, b) == \E i \in 1 .. Len(b) : InSeq(a, b[i])

RemoveAt(s, j) == [k \in 1 .. (Len(s) - 1) |-> IF k < j THEN s[k] ELSE s[k + 1]]

MergeInto(entries, i, j) ==
  LET ei == entries[i]
      ej == entries[j]
      m == [cells |-> AddAll(ei.cells, ej.cells, 1),
            maxRunLength |-> Max2(ei.maxRunLength, ej.maxRunLength),
            hasH |-> ei.hasH \/ ej.hasH,
            hasV |-> ei.hasV \/ ej.hasV]
  IN RemoveAt([entries EXCEPT ![i] = m], j)

(* the first overlapping pair (i, j), i < j, in the order the loops visit them *)
FirstOverlap(entries) ==
  LET pairs == {p \in (1 .. Len(entries)) \X (1 .. Len(entries)) :
                  p[1] < p[2] /\ Overlap(entries[p[1]].cells, entries[p[2]].cells)}
  IN IF pairs = {} THEN <<0, 0>>
     ELSE CHOOSE p \in pairs :
            \A q \in pairs : p[1] < q[1] \/ (p[1] = q[1] /\ p[2] <= q[2])

(* one merge and no more *)
mergeOnce(entries) ==
  LET p == FirstOverlap(entries)
  IN IF p[1] = 0 THEN entries ELSE MergeInto(entries, p[1], p[2])

RECURSIVE MergeLoop(_)
MergeLoop(entries) ==
  LET p == FirstOverlap(entries)
  IN IF p[1] = 0 THEN entries ELSE MergeLoop(MergeInto(entries, p[1], p[2]))

mergeOverlappingGroups(groups) ==
  LET entries == [k \in 1 .. Len(groups) |->
                    [cells |-> groups[k].cells,
                     maxRunLength |-> groups[k].length,
                     hasH |-> groups[k].horizontal,
                     hasV |-> ~groups[k].horizontal]]
      done == MergeLoop(entries)
  IN [k \in 1 .. Len(done) |->
        [cells |-> done[k].cells,
         totalSize |-> Len(done[k].cells),
         maxRunLength |-> done[k].maxRunLength,
         isLT |-> done[k].hasH /\ done[k].hasV]]

(* ---------- swap / hasValidMoves ---------- *)
swapArr(a, r1, c1, r2, c2) ==
  [a EXCEPT ![r1][c1] = a[r2][c2], ![r2][c2] = a[r1][c1]]

(* swap acts on grid and powerUpGrid together: b = [g |-> grid, p |-> powerUpGrid] *)
swap(b, r1, c1, r2, c2) ==
  [g |-> swapArr(b.g, r1, c1, r2, c2), p |-> swapArr(b.p, r1, c1, r2, c2)]

(* hasValidMoves swaps, tests and swaps back on the live arrays; the value is
   [ok |-> the result, b |-> the arrays as the call leaves them] *)
RECURSIVE hvmScan(_, _)
hvmScan(b, idx) ==
  IF idx >= ROWS * COLS THEN [ok |-> FALSE, b |-> b]
  ELSE LET r == RowOf(idx)
           c == ColOf(idx)
           doR == c < COLS - 1
           b1 == IF doR THEN swap(b, r, c, r, c + 1) ELSE b
           hitR == doR /\ findMatches(b1.g) # {}
           bR == IF doR THEN swap(b1, r, c, r, c + 1) ELSE b
           doD == r < ROWS - 1
           b2 == IF doD THEN swap(bR, r, c, r + 1, c) ELSE bR
           hitD == doD /\ findMatches(b2.g) # {}
           bD == IF doD THEN swap(b2, r, c, r + 1, c) ELSE bR
       IN IF hitR THEN [ok |-> TRUE, b |-> bR]
          ELSE IF hitD THEN [ok |-> TRUE, b |-> bD]
          ELSE hvmScan(bD, idx + 1)

(* a test for a move that gives the right answer and leaves its first swap in place *)
movesKeepSwap(b) == [ok |-> hvmScan(b, 0).ok, b |-> swap(hvmScan(b, 0).b, 0, 0, 0, 1)]

hasValidMoves(b) == hvmScan(b, 0)

(* ---------- shuffleGrid ---------- *)
(* Fisher-Yates over grid.flat(): i from ROWS*COLS-1 down to 1, j = rng(i+1) *)
RECURSIVE fisherYates(_, _, _)
fisherYates(flat, i, fy) ==
  IF i <= 0 THEN flat
  ELSE LET j == rng(i + 1, fy[i])
       IN fisherYates([flat EXCEPT ![i] = flat[j], ![j] = flat[i]], i - 1, fy)

(* a re-draw that yields one colour everywhere *)
oneColour(tape) == [r \in Rows |-> [c \in Cols |-> 0]]

randomGrid(tape) == [r \in Rows |-> [c \in Cols |-> rng(NUM_COLORS, tape[r][c])]]

(* the while loop of shuffleGrid; the draws of iteration k are sh.rounds[k].
   ok is FALSE when the loop has not ended within the draws given *)
RECURSIVE shuffleLoop(_, _, _)
shuffleLoop(b, rounds, k) ==
  IF findMatches(b.g) # {}
  THEN IF k > Len(rounds) THEN [ok |-> FALSE, b |-> b]
       ELSE shuffleLoop([g |-> randomGrid(rounds[k]), p |-> b.p], rounds, k + 1)
  ELSE LET h == hasValidMoves(b)
       IN IF h.ok THEN [ok |-> TRUE, b |-> h.b]
          ELSE IF k > Len(rounds) THEN [ok |-> FALSE, b |-> h.b]
          ELSE shuffleLoop([g |-> randomGrid(rounds[k]), p |-> h.b.p], rounds, k + 1)

shuffleGrid(b, sh) ==
  LET flat == [i \in Cells |-> b.g[RowOf(i)][ColOf(i)]]
      perm == fisherYates(flat, ROWS * COLS - 1, sh.fy)
      g1 == [r \in Rows |-> [c \in Cols |-> perm[r * COLS + c]]]
  IN shuffleLoop([g |-> g1, p |-> Fill2(POWERUP_NONE)], sh.rounds, 1)

(* the constrained fill alone, with the test for a move and the shuffle left out *)
initGridFillOnly(tape, sh) ==
  [ok |-> TRUE, b |-> [g |-> initFill(Fill2(Empty), 0, tape), p |-> Fill2(POWERUP_NONE)],
   shuffled |-> FALSE]

(* initGrid: the constrained fill, then a shuffle when no move exists *)
initGrid(tape, sh) ==
  LET b0 == [g |-> initFill(Fill2(Empty), 0, tape), p |-> Fill2(POWERUP_NONE)]
      h == hasValidMoves(b0)
  IN IF h.ok THEN [ok |-> TRUE, b |-> h.b, shuffled |-> FALSE]
     ELSE LET s == shuffleGrid(h.b, sh) IN [ok |-> s.ok, b |-> s.b, shuffled |-> TRUE]

(* ---------- one cascade round, up to its first await ---------- *)
RECURSIVE allMatchedOf(_, _, _)
allMatchedOf(groups, k, acc) ==
  IF k > Len(groups) THEN acc ELSE allMatchedOf(groups, k + 1, AddAll(acc, groups[k].cells, 1))

(* a classification by the longest run alone *)
runOnly(mg) ==
  IF mg.maxRunLength >= 6 THEN POWERUP_LINE
  ELSE IF mg.maxRunLength >= 4 THEN POWERUP_BOMB
  ELSE POWERUP_NONE

puTypeOf(mg) ==
  IF mg.maxRunLength >= 6 \/ (mg.isLT /\ mg.totalSize >= 6) THEN POWERUP_LINE
  ELSE IF mg.isLT \/ mg.maxRunLength >= 4 THEN POWERUP_BOMB
  ELSE POWERUP_NONE

(* sw = <<swapR1, swapC1, swapR2, swapC2>> *)
(* a spawn column that is always the middle of the cell list *)
middleOnly(mg, isFirstRound, sw) == mg.cells[(Len(mg.cells) \div 2) + 1] % COLS

spawnColOf(mg, isFirstRound, sw) ==
  LET s1 == sw[1] * COLS + sw[2]
      s2 == sw[3] * COLS + sw[4]
      first == IF isFirstRound
               THEN IF InSeq(mg.cells, s1) THEN sw[2]
                    ELSE IF InSeq(mg.cells, s2) THEN sw[4] ELSE -1
               ELSE -1
  IN IF first = -1 THEN mg.cells[(Len(mg.cells) \div 2) + 1] % COLS ELSE first

(* a round that earns nothing *)
nothingEarned(merged, k, isFirstRound, sw, acc) == acc

RECURSIVE pendingOf(_, _, _, _, _)
pendingOf(merged, k, isFirstRound, sw, acc) ==
  IF k > Len(merged) THEN acc
  ELSE pendingOf(merged, k + 1, isFirstRound, sw,
                 IF puTypeOf(merged[k]) = POWERUP_NONE THEN acc
                 ELSE Append(acc, [type |-> puTypeOf(merged[k]),
                                   col |-> spawnColOf(merged[k], isFirstRound, sw)]))

Offsets9 == << <<-1, -1>>, <<-1, 0>>, <<-1, 1>>, <<0, -1>>, <<0, 0>>, <<0, 1>>,
               <<1, -1>>, <<1, 0>>, <<1, 1>> >>

bombCells(r, c) ==
  LET inb == SelectSeq(Offsets9, LAMBDA d : r + d[1] >= 0 /\ r + d[1] < ROWS
                                            /\ c + d[2] >= 0 /\ c + d[2] < COLS)
  IN [i \in 1 .. Len(inb) |-> (r + inb[i][1]) * COLS + (c + inb[i][2])]

lineCells(r, c) ==
  [i \in 1 .. (COLS + ROWS) |->
      IF i <= COLS THEN r * COLS + (i - 1) ELSE (i - COLS - 1) * COLS + c]

(* a blast that is the 3x3 block and the row and column for either power-up *)
blastBoth(pu, r, c) ==
  IF pu = POWERUP_NONE THEN <<>> ELSE bombCells(r, c) \o lineCells(r, c)

blastOf(pu, r, c) ==
  IF pu = POWERUP_BOMB THEN bombCells(r, c)
  ELSE IF pu = POWERUP_LINE THEN lineCells(r, c)
  ELSE <<>>

(* one "for (const idx of toDestroy)" pass; cells added during the pass are visited *)
RECURSIVE activatePass(_, _, _, _, _)
activatePass(p, td, i, activated, changed) ==
  IF i > Len(td) THEN [td |-> td, activated |-> activated, changed |-> changed]
  ELSE LET idx == td[i]
           r == RowOf(idx)
           c == ColOf(idx)
       IN IF idx \in activated \/ p[r][c] = POWERUP_NONE
          THEN activatePass(p, td, i + 1, activated, changed)
          ELSE LET td2 == AddAll(td, blastOf(p[r][c], r, c), 1)
               IN activatePass(p, td2, i + 1, activated \cup {idx},
                               changed \/ Len(td2) > Len(td))

RECURSIVE activateLoop(_, _, _)
activateLoop(p, td, activated) ==
  LET a == activatePass(p, td, 1, activated, FALSE)
  IN IF a.changed THEN activateLoop(p, a.td, a.activated) ELSE a

(* activation of the power-ups on matched cells only, with no chain reaction *)
directOnly(p, allMatched) ==
  activatePass([r \in Rows |-> [c \in Cols |->
                  IF InSeq(allMatched, r * COLS + c) THEN p[r][c] ELSE POWERUP_NONE]],
               allMatched, 1, {}, FALSE)

chainReact(p, allMatched) == activateLoop(p, allMatched, {})

(* a score without the chain multiplier *)
flatScore(matches, chain) == Cardinality(matches) * 10

(* Math.round(base * (1 + (chain - 1) * 0.5)), base = matches.size * 10:
   the product is base * (chain + 1) / 2 and Math.round(x) is floor(x + 1/2) *)
calcScore(matches, chain) ==
  LET base == Cardinality(matches) * 10
  IN (base * (chain + 1) + 1) \div 2

(* the synchronous head of a round of processCascades (591-703) *)
roundHead(b, isFirstRound, sw, chain) ==
  LET groups == findMatchGroups(b.g)
      allMatched == allMatchedOf(groups, 1, <<>>)
      merged == mergeOverlappingGroups(groups)
      a == chainReact(b.p, allMatched)
      newChain == chain + 1
  IN [matched |-> Range(allMatched),
      pending |-> pendingOf(merged, 1, isFirstRound, sw, <<>>),
      toDestroy |-> Range(a.td),
      activated |-> a.activated,
      chain |-> newChain,
      pts |-> calcScore(Range(a.td), newChain)]

(* ---------- gravity + fill ---------- *)
(* a fill with no colour excluded *)
anyColour(r, c, g) == <<0, 1, 2>>

safeFillAvail(r, c, g) ==
  LET a0 == <<0, 1, 2>>
      a1 == IF c >= 2 /\ g[r][c - 1] # Empty /\ g[r][c - 1] = g[r][c - 2]
            THEN Without(a0, g[r][c - 1]) ELSE a0
      a2 == IF r >= 2 /\ g[r - 1][c] # Empty /\ g[r - 1][c] = g[r - 2][c]
            THEN Without(a1, g[r - 1][c]) ELSE a1
      a3 == IF r >= 1 /\ r < ROWS - 1 /\ g[r - 1][c] # Empty /\ g[r + 1][c] # Empty
               /\ g[r - 1][c] = g[r + 1][c]
            THEN Without(a2, g[r - 1][c]) ELSE a2
  IN a3

(* a pick that indexes the colours left with rng(NUM_COLORS): past the end of a
   shortened list there is no colour *)
pickOfThree(r, c, g, u) ==
  LET avail == safeFillAvail(r, c, g)
      k == rng(NUM_COLORS, u) + 1
  IN IF k > Len(avail) THEN Empty ELSE avail[k]

safeFillColor(r, c, g, u) ==
  LET avail == safeFillAvail(r, c, g)
  IN avail[rng(Len(avail), u) + 1]

removeCells(b, toDestroy) ==
  [g |-> [r \in Rows |-> [c \in Cols |->
            IF (r * COLS + c) \in toDestroy THEN Empty ELSE b.g[r][c]]],
   p |-> [r \in Rows |-> [c \in Cols |->
            IF (r * COLS + c) \in toDestroy THEN POWERUP_NONE ELSE b.p[r][c]]]]

(* the surviving rows of column c, top to bottom *)
piecesOf(g, c) == SelectSeq([i \in 1 .. ROWS |-> i - 1], LAMBDA r : g[r][c] # Empty)

(* at most one pending power-up per column: the first one aimed at it *)
firstOnly(pending, c) ==
  LET mine == SelectSeq(pending, LAMBDA pu : pu.col = c)
  IN IF mine = <<>> THEN <<>> ELSE <<mine[1].type>>

puByColOf(pending, c) ==
  LET mine == SelectSeq(pending, LAMBDA pu : pu.col = c)
  IN [i \in 1 .. Len(mine) |-> mine[i].type]

RECURSIVE fillNew(_, _, _, _, _)
fillNew(ng, c, r, empty, tape) ==
  IF r >= empty THEN ng
  ELSE fillNew(Set2(ng, r, c, safeFillColor(r, c, ng, tape[r][c])), c, r + 1, empty, tape)

RECURSIVE fillColumns(_, _, _, _, _)
fillColumns(b, pending, tape, c, nb) ==
  IF c >= COLS THEN nb
  ELSE LET pieces == piecesOf(b.g, c)
           empty == ROWS - Len(pieces)
           colPUs == puByColOf(pending, c)
           placed == [r \in Rows |-> [cc \in Cols |->
                        IF cc = c /\ r >= empty THEN b.g[pieces[r - empty + 1]][c]
                        ELSE nb.g[r][cc]]]
           filled == fillNew(placed, c, 0, empty, tape)
           newP == [r \in Rows |-> [cc \in Cols |->
                      IF cc # c THEN nb.p[r][cc]
                      ELSE IF r < empty
                           THEN (IF r + 1 <= Len(colPUs) THEN colPUs[r + 1] ELSE POWERUP_NONE)
                           ELSE b.p[pieces[r - empty + 1]][c]]]
       IN fillColumns(b, pending, tape, c + 1, [g |-> filled, p |-> newP])

(* a refill in place: the holes get colour 0 and nothing falls *)
fillInPlace(b, pending, tape) ==
  [g |-> [r \in Rows |-> [c \in Cols |-> IF b.g[r][c] = Empty THEN 0 ELSE b.g[r][c]]],
   p |-> b.p]

applyGravityAndFill(b, pending, tape) ==
  fillColumns(b, pending, tape, 0, [g |-> Fill2(Empty), p |-> Fill2(POWERUP_NONE)])

(* ---------- bounds of the model ---------- *)
MaxGames == 2      \* startGame calls
MaxCalls == 2      \* trySwap calls
CellSize == 20     \* cellSize in px, computed on layout
TouchLate == 1     \* the player touches the board in the last TouchLate seconds of
TouchEarly == 1    \* the first game and in the first TouchEarly seconds of a later one
MaxRounds == 2     \* cascade rounds followed per trySwap call
LaterTicks == 0    \* timer ticks followed in a game after the first

(* ---------- inputs: rng draws and pointer positions ---------- *)
(* A draw is u with Math.random() = u / RandomRes.  The tapes give one draw per
   cell; they are chosen so that the boards below arise:
   BoardA  no run, the swap (2,3)-(2,4) makes a run of 4, the swap (1,5)-(1,4) none
   BoardF  no run and no swap that creates one *)
BoardA ==
  FromRows(<< <<1, 0, 2, 1, 0, 0>>,
     <<2, 1, 0, 1, 1, 0>>,
     <<0, 2, 1, 2, 1, 1>>,
     <<1, 0, 2, 1, 0, 2>>,
     <<2, 1, 0, 2, 1, 0>>,
     <<0, 2, 1, 0, 2, 1>>,
     <<1, 0, 2, 1, 0, 2>>,
     <<1, 1, 0, 2, 1, 0>> >>)

BoardF ==
  FromRows(<< <<1, 0, 2, 1, 0, 0>>,
     <<2, 1, 0, 2, 1, 0>>,
     <<0, 2, 1, 0, 2, 1>>,
     <<1, 0, 2, 1, 0, 2>>,
     <<2, 1, 0, 2, 1, 0>>,
     <<0, 2, 1, 0, 2, 1>>,
     <<1, 0, 2, 1, 0, 2>>,
     <<1, 1, 0, 2, 1, 0>> >>)

TapeA ==
  FromRows(<< <<23, 7, 39, 23, 7, 7>>,
     <<39, 23, 7, 23, 23, 11>>,
     <<7, 39, 23, 35, 23, 11>>,
     <<23, 7, 39, 23, 11, 39>>,
     <<39, 23, 7, 39, 23, 7>>,
     <<7, 39, 23, 7, 39, 23>>,
     <<23, 7, 39, 23, 7, 39>>,
     <<23, 23, 11, 39, 23, 7>> >>)

TapeF ==
  FromRows(<< <<23, 7, 39, 23, 7, 7>>,
     <<39, 23, 7, 39, 23, 7>>,
     <<7, 39, 23, 7, 39, 11>>,
     <<23, 7, 39, 23, 7, 39>>,
     <<39, 23, 7, 39, 23, 7>>,
     <<7, 39, 23, 7, 39, 23>>,
     <<23, 7, 39, 23, 7, 39>>,
     <<23, 23, 11, 39, 23, 7>> >>)

FillTape1 ==
  FromRows(<< <<8, 24, 40, 23, 24, 40>>,
     <<24, 40, 8, 39, 40, 8>>,
     <<40, 8, 24, 7, 8, 24>>,
     <<8, 24, 40, 23, 24, 40>>,
     <<24, 40, 8, 24, 40, 8>>,
     <<40, 8, 24, 40, 8, 24>>,
     <<8, 24, 40, 8, 24, 40>>,
     <<24, 40, 8, 24, 40, 8>> >>)

FillTape2 ==
  FromRows(<< <<8, 24, 40, 7, 24, 40>>,
     <<24, 40, 8, 7, 40, 8>>,
     <<40, 8, 24, 11, 8, 24>>,
     <<8, 24, 40, 7, 24, 40>>,
     <<24, 40, 8, 24, 40, 8>>,
     <<40, 8, 24, 40, 8, 24>>,
     <<8, 24, 40, 8, 24, 40>>,
     <<24, 40, 8, 24, 40, 8>> >>)

RoundA ==
  FromRows(<< <<24, 8, 40, 24, 8, 8>>,
     <<40, 24, 8, 24, 24, 8>>,
     <<8, 40, 24, 40, 24, 24>>,
     <<24, 8, 40, 24, 8, 40>>,
     <<40, 24, 8, 40, 24, 8>>,
     <<8, 40, 24, 8, 40, 24>>,
     <<24, 8, 40, 24, 8, 40>>,
     <<24, 24, 8, 40, 24, 8>> >>)

(* draws that give the board of colours (r + c) % 3: no run, no move *)
TapeD ==
  FromRows(<< <<7, 23, 39, 7, 23, 39>>,
     <<23, 39, 7, 23, 39, 7>>,
     <<39, 7, 23, 39, 7, 23>>,
     <<7, 23, 39, 7, 23, 39>>,
     <<23, 39, 7, 23, 39, 7>>,
     <<39, 7, 23, 39, 7, 23>>,
     <<7, 23, 39, 7, 23, 39>>,
     <<23, 39, 7, 23, 39, 7>> >>)

(* every cell re-drawn to colour 0: a board full of runs *)
RoundM == Fill2(0)

InitTapes == {TapeA, TapeF}
FillTapes == {FillTape1, FillTape2}
ShuffleTapes == {[fy |-> [i \in Cells |-> (7 * i) % RandomRes], rounds |-> <<RoundM, RoundA>>]}

(* what initGrid returns under these draws *)
InitGrids == {initGrid(tape, sh) : tape \in InitTapes, sh \in ShuffleTapes}

(* a wider family of draws for initGrid and shuffleGrid *)
SeedsA == 12
SeedsB == 10
SeedTape(a, b) ==
  [r \in Rows |-> [c \in Cols |->
     (a * (7 * r + 3 * c + 1) + b * (r * c + r + 1)) % RandomRes]]
WideInitTapes ==
  {SeedTape(a, b) : a \in 1 .. SeedsA, b \in 0 .. (SeedsB - 1)} \cup {TapeA, TapeF, TapeD}
(* Fisher-Yates draws: a pseudo-random permutation, and the single exchange of
   the first and the last cell, after which no re-draw is needed *)
WideShuffleTapes ==
  ShuffleTapes
  \cup {[fy |-> [i \in Cells |-> (5 * i + 11) % RandomRes],
         rounds |-> <<SeedTape(1, 1), RoundM, RoundA>>],
        [fy |-> [i \in Cells |-> IF i = ROWS * COLS - 1 THEN 0 ELSE RandomRes - 1],
         rounds |-> <<RoundA>>]}
WideInitGrids == {initGrid(tape, sh) : tape \in WideInitTapes, sh \in WideShuffleTapes}

(* pointer positions relative to the grid's top-left corner: pointer-down in cell
   (2,3) and right of the grid beside row 1 (clamped to cell (1,5)); pointer-up
   far to the right of both and 3 px from the first *)
DownPoints == {<<3 * CellSize + 5, 2 * CellSize + 5>>, <<6 * CellSize + 5, CellSize + 5>>}
UpPoints == {<<10 * CellSize, 2 * CellSize + 5>>, <<3 * CellSize + 8, 2 * CellSize + 5>>}

(* ---------- state ---------- *)
VARIABLES
  grid,           \* [row][col] -> colour 0..2, Empty = -1; Undefined before the first game
  powerUpGrid,    \* [row][col] -> POWERUP_*
  score,
  timeLeft,
  timerOn,        \* timerInterval is a live interval
  isProcessing,
  gameActive,
  currentScreen,
  pointerDown,
  start,          \* [x, y, row, col]: startX, startY, startRow, startCol
  leaderboard,    \* the scores stored under mochiLeaderboard, best first
  tasks,          \* the trySwap calls made so far, each with its locals and await point
  games           \* number of startGame calls

vars == <<grid, powerUpGrid, score, timeLeft, timerOn, isProcessing, gameActive,
          currentScreen, pointerDown, start, leaderboard, tasks, games>>

Undefined == <<>>

board == [g |-> grid, p |-> powerUpGrid]

(* draws: the fill draws the call has used so far, one tape for each refill *)
NoLocals ==
  [chain |-> 0, first |-> TRUE, toDestroy |-> {}, pending |-> <<>>, draws |-> <<>>]

(* what the key mochiLeaderboard holds when the page loads: nothing, or what
   saveScore (965-972) of earlier page loads has left, at most five scores, best
   first.  The script never clears the store *)
Stores == {<<>>, <<90, 70, 50, 30, 10>>}

Init ==
  /\ grid = Undefined
  /\ powerUpGrid = Undefined
  /\ score = 0
  /\ timeLeft = 0
  /\ timerOn = FALSE
  /\ isProcessing = FALSE
  /\ gameActive = FALSE
  /\ currentScreen = "screen-attract"
  /\ pointerDown = FALSE
  /\ start = [x |-> 0, y |-> 0, row |-> 0, col |-> 0]
  /\ leaderboard \in Stores
  /\ tasks = <<>>
  /\ games = 0

(* ---------- game flow ---------- *)
(* startGame (949-963): reset, initGrid, start the timer *)
startGameWith(grids) ==
  /\ games < MaxGames
  /\ \E i \in grids :
        /\ i.ok
        /\ grid' = i.b.g
        /\ powerUpGrid' = i.b.p
  /\ score' = 0
  /\ timeLeft' = GAME_TIME
  /\ isProcessing' = FALSE
  /\ gameActive' = TRUE
  /\ currentScreen' = "screen-gameplay"
  /\ timerOn' = TRUE
  /\ games' = games + 1
  /\ UNCHANGED <<pointerDown, start, leaderboard, tasks>>

startGame == startGameWith(InitGrids)

(* the click handlers (1048-1074).  Only the handler of screen-instructions tests
   currentScreen (1059); the others act on every click.  Navigation is followed
   while a further game can start (MaxGames); after that currentScreen is read
   by nothing *)
ClickStart ==
  /\ games < MaxGames
  /\ currentScreen' = "screen-instructions"
  /\ UNCHANGED <<grid, powerUpGrid, score, timeLeft, timerOn, isProcessing, gameActive,
                 pointerDown, start, leaderboard, tasks, games>>

ClickInstructions ==
  /\ currentScreen = "screen-instructions"
  /\ startGame

ClickPlayAgain ==
  /\ startGame

ClickQuit ==
  /\ games < MaxGames
  /\ currentScreen' = "screen-attract"
  /\ UNCHANGED <<grid, powerUpGrid, score, timeLeft, timerOn, isProcessing, gameActive,
                 pointerDown, start, leaderboard, tasks, games>>

(* saveScore (965-972): push, sort by score descending, keep the top 5 *)
RECURSIVE insertSorted(_, _, _)
insertSorted(lb, pts, i) ==
  IF i > Len(lb) THEN Append(lb, pts)
  ELSE IF lb[i] < pts THEN SubSeq(lb, 1, i - 1) \o <<pts>> \o SubSeq(lb, i, Len(lb))
  ELSE insertSorted(lb, pts, i + 1)

saveScore(lb, pts) ==
  LET all == insertSorted(lb, pts, 1)
  IN SubSeq(all, 1, Min2(5, Len(all)))

(* the interval callback of startTimer (903-910), with endGame (984-1001).
   The interval is 1000 ms and every delay a trySwap call awaits is at most
   ANIM.powerup = 450 ms (19-26, 482, 704, 711, 825, 726): a call suspended at an
   await sees at most one tick before it resumes (ticked) *)
TimerTick ==
  /\ timerOn
  /\ games <= 1 \/ timeLeft > GAME_TIME - LaterTicks
  /\ \A i \in 1 .. Len(tasks) : ~tasks[i].ticked
  /\ tasks' = [i \in 1 .. Len(tasks) |->
                 IF tasks[i].pc # "done" THEN [tasks[i] EXCEPT !.ticked = TRUE] ELSE tasks[i]]
  /\ timeLeft' = timeLeft - 1
  /\ IF timeLeft - 1 <= 0
     THEN /\ timerOn' = FALSE
          /\ IF gameActive
             THEN /\ gameActive' = FALSE
                  /\ leaderboard' = saveScore(leaderboard, score)
                  /\ currentScreen' = "screen-result"
             ELSE UNCHANGED <<gameActive, leaderboard, currentScreen>>
     ELSE UNCHANGED <<timerOn, gameActive, leaderboard, currentScreen>>
  /\ UNCHANGED <<grid, powerUpGrid, score, isProcessing, pointerDown, start, games>>

(* ---------- input ---------- *)
(* x, y are clientX - rect.left and clientY - rect.top *)
startAt(x, y) ==
  [x |-> x, y |-> y,
   col |-> clamp(x \div CellSize, 0, COLS - 1),
   row |-> clamp(y \div CellSize, 0, ROWS - 1)]

onPointerDown(x, y) ==
  /\ ~(isProcessing \/ ~gameActive)
  /\ pointerDown' = TRUE
  /\ start' = startAt(x, y)
  /\ UNCHANGED <<grid, powerUpGrid, score, timeLeft, timerOn, isProcessing, gameActive,
                 currentScreen, leaderboard, tasks, games>>

isTap(dx, dy) == Abs(dx) < SwipeMin /\ Abs(dy) < SwipeMin

(* the target cell <<tr, tc>> of a swipe *)
swipeTarget(row, col, dx, dy) ==
  IF Abs(dx) > Abs(dy)
  THEN <<row, col + (IF dx > 0 THEN 1 ELSE -1)>>
  ELSE <<row + (IF dy > 0 THEN 1 ELSE -1), col>>

(* a bounds test that lets every target through *)
neverOut(tr, tc) == FALSE

outOfBounds(tr, tc) == tr < 0 \/ tr >= ROWS \/ tc < 0 \/ tc >= COLS

(* the synchronous head of trySwap (425-429) *)
(* a call suspended at its first await; pre is the state it was called in *)
newCall(r1, c1, r2, c2) ==
  [pc |-> "swap1", sw |-> <<r1, c1, r2, c2>>, loc |-> NoLocals, result |-> "pending",
   ticked |-> FALSE,
   pre |-> [g |-> grid, p |-> powerUpGrid, score |-> score, game |-> games,
            alone |-> TRUE]]

(* pre.alone: no earlier call was still suspended when this one was made *)
callTrySwap(r1, c1, r2, c2) ==
  /\ Len(tasks) < MaxCalls
  /\ isProcessing' = TRUE
  /\ tasks' = Append(tasks,
                     [newCall(r1, c1, r2, c2) EXCEPT
                        !.pre.alone = \A j \in 1 .. Len(tasks) : tasks[j].pc = "done"])

onPointerUp(x, y) ==
  /\ ~(~pointerDown \/ isProcessing \/ ~gameActive)
  /\ pointerDown' = FALSE
  /\ LET dx == x - start.x
         dy == y - start.y
         t == swipeTarget(start.row, start.col, dx, dy)
     IN IF isTap(dx, dy) \/ outOfBounds(t[1], t[2])
        THEN UNCHANGED <<isProcessing, tasks>>
        ELSE callTrySwap(start.row, start.col, t[1], t[2])
  /\ UNCHANGED <<grid, powerUpGrid, score, timeLeft, timerOn, gameActive,
                 currentScreen, start, leaderboard, games>>

(* the moments at which the player touches the board *)
TouchTime ==
  /\ Len(tasks) < MaxCalls
  /\ IF games <= 1 THEN timeLeft <= TouchLate ELSE timeLeft > GAME_TIME - TouchEarly

PointerDown == TouchTime /\ \E pt \in DownPoints : onPointerDown(pt[1], pt[2])
PointerUp == TouchTime /\ \E pt \in UpPoints : onPointerUp(pt[1], pt[2])

(* ---------- trySwap and processCascades, from await to await ---------- *)
Running(i) == i \in 1 .. Len(tasks) /\ tasks[i].pc # "done"

(* a call that has returned keeps only how it ended *)
setTask(i, pc, loc, result) ==
  [tasks EXCEPT ![i] =
     IF pc = "done"
     THEN [pc |-> pc, sw |-> Undefined, loc |-> NoLocals, result |-> result,
           ticked |-> FALSE, pre |-> Undefined]
     ELSE [pc |-> pc, sw |-> tasks[i].sw, loc |-> loc, result |-> result,
           ticked |-> FALSE, pre |-> tasks[i].pre]]

(* a loop test that ends processCascades before any round *)
noRound(active, b) == FALSE

(* a loop head that tests the board only, not gameActive *)
roundAnyway(active, b) == findMatchGroups(b.g) # <<>>

(* the test of "while (gameActive)" followed by the break on no match (591-595) *)
roundBegins(active, b) == active /\ findMatchGroups(b.g) # <<>>

(* trySwap after processCascades has returned (445-451) *)
(* an end of trySwap that leaves isProcessing as it is *)
finishBusy(i, b, loc) ==
  /\ isProcessing' = isProcessing
  /\ score' = score
  /\ grid' = b.g
  /\ powerUpGrid' = b.p
  /\ tasks' = setTask(i, "done", loc, "resolved")

(* the end of processCascades and of trySwap (444-451) *)
finishTrySwap(i, b, loc) ==
  /\ isProcessing' = FALSE
  /\ score' = score
  /\ IF ~gameActive
     THEN /\ grid' = b.g
          /\ powerUpGrid' = b.p
          /\ tasks' = setTask(i, "done", loc, "resolved")
     ELSE \E h \in {hasValidMoves(b)} :
            IF h.ok
            THEN /\ grid' = h.b.g
                 /\ powerUpGrid' = h.b.p
                 /\ tasks' = setTask(i, "done", loc, "resolved")
            ELSE \E sh \in ShuffleTapes : \E s \in {shuffleGrid(h.b, sh)} :
                   /\ s.ok
                   /\ grid' = s.b.g
                   /\ powerUpGrid' = s.b.p
                   /\ tasks' = setTask(i, "done", loc, "shuffled")

(* the top of the cascade loop with the arrays b: either one more round runs up to
   its first await, or processCascades returns and trySwap finishes *)
cascadeLoop(i, b, first, chain) ==
  IF roundBegins(gameActive, b)
  THEN LET h == roundHead(b, first, tasks[i].sw, chain)
       IN /\ chain < MaxRounds
          /\ score' = score + h.pts
          /\ grid' = b.g
          /\ powerUpGrid' = b.p
          /\ isProcessing' = isProcessing
          /\ tasks' = setTask(i, IF h.activated # {} THEN "powerup" ELSE "pop",
                              [chain |-> h.chain, first |-> first,
                               toDestroy |-> h.toDestroy, pending |-> h.pending,
                               draws |-> tasks[i].loc.draws],
                              "pending")
  ELSE finishTrySwap(i, b, [chain |-> chain, first |-> first,
                            toDestroy |-> {}, pending |-> <<>>,
                            draws |-> tasks[i].loc.draws])

(* after the first animateSwap (430-444) *)
ResumeSwap(i) ==
  /\ Running(i) /\ tasks[i].pc = "swap1"
  /\ LET sw == tasks[i].sw
         b == swap(board, sw[1], sw[2], sw[3], sw[4])
     IN IF findMatches(b.g) = {}
        THEN /\ grid' = b.g
             /\ powerUpGrid' = b.p
             /\ tasks' = setTask(i, "swapback", tasks[i].loc, "pending")
             /\ UNCHANGED <<score, isProcessing>>
        ELSE cascadeLoop(i, b, TRUE, 0)
  /\ UNCHANGED <<timeLeft, timerOn, gameActive, currentScreen, pointerDown, start,
                 leaderboard, games>>

(* after the second animateSwap of a swap with no match (437-441) *)
ResumeSwapBack(i) ==
  /\ Running(i) /\ tasks[i].pc = "swapback"
  /\ LET sw == tasks[i].sw
         b == swap(board, sw[1], sw[2], sw[3], sw[4])
     IN /\ grid' = b.g
        /\ powerUpGrid' = b.p
  /\ isProcessing' = FALSE
  /\ tasks' = setTask(i, "done", tasks[i].loc, "reverted")
  /\ UNCHANGED <<score, timeLeft, timerOn, gameActive, currentScreen, pointerDown, start,
                 leaderboard, games>>

(* after delay(ANIM.powerup) (704-711) *)
ResumePowerup(i) ==
  /\ Running(i) /\ tasks[i].pc = "powerup"
  /\ tasks' = setTask(i, "pop", tasks[i].loc, "pending")
  /\ UNCHANGED <<grid, powerUpGrid, score, timeLeft, timerOn, isProcessing, gameActive,
                 currentScreen, pointerDown, start, leaderboard, games>>

(* the removal alone, with the refill left to a later step *)
popOnly(b, toDestroy, pending, tape) == removeCells(b, toDestroy)

(* after delay(ANIM.pop): remove the destroyed cells, then applyGravityAndFill up to
   its await (713-725, 739-825) *)
popAndFill(b, toDestroy, pending, tape) ==
  applyGravityAndFill(removeCells(b, toDestroy), pending, tape)

ResumePop(i) ==
  /\ Running(i) /\ tasks[i].pc = "pop"
  /\ \E tape \in FillTapes :
       LET b == popAndFill(board, tasks[i].loc.toDestroy, tasks[i].loc.pending, tape)
       IN /\ grid' = b.g
          /\ powerUpGrid' = b.p
          /\ tasks' = setTask(i, "fall",
                              [tasks[i].loc EXCEPT !.draws = Append(@, tape)], "pending")
  /\ UNCHANGED <<score, timeLeft, timerOn, isProcessing, gameActive,
                 currentScreen, pointerDown, start, leaderboard, games>>

(* after delay(ANIM.fall + 60) in applyGravityAndFill (825-830, 726) *)
ResumeFall(i) ==
  /\ Running(i) /\ tasks[i].pc = "fall"
  /\ tasks' = setTask(i, "cascade", tasks[i].loc, "pending")
  /\ UNCHANGED <<grid, powerUpGrid, score, timeLeft, timerOn, isProcessing, gameActive,
                 currentScreen, pointerDown, start, leaderboard, games>>

(* after delay(ANIM.cascade): isFirstRound = false and the loop test (726-729, 591) *)
ResumeCascade(i) ==
  /\ Running(i) /\ tasks[i].pc = "cascade"
  /\ cascadeLoop(i, board, FALSE, tasks[i].loc.chain)
  /\ UNCHANGED <<timeLeft, timerOn, gameActive, currentScreen, pointerDown, start,
                 leaderboard, games>>

Resume ==
  \E i \in 1 .. MaxCalls :
     \/ ResumeSwap(i)
     \/ ResumeSwapBack(i)
     \/ ResumePowerup(i)
     \/ ResumePop(i)
     \/ ResumeFall(i)
     \/ ResumeCascade(i)

Next ==
  \/ ClickStart
  \/ ClickInstructions
  \/ ClickPlayAgain
  \/ ClickQuit
  \/ TimerTick
  \/ PointerDown
  \/ PointerUp
  \/ Resume

Spec == Init /\ [][Next]_vars

(* ---------- one move alone, from boards that hold power-ups ---------- *)
(* BoardA with every assignment of None / Bomb / Line to the cells RoundPUCells,
   at the moment onPointerUp has called trySwap *)
RoundPUCells == <<9, 16, 10, 28>>

RoundPowerUps ==
  {[r \in Rows |-> [c \in Cols |->
      IF \E k \in 1 .. Len(RoundPUCells) : RoundPUCells[k] = r * COLS + c
      THEN f[CHOOSE k \in 1 .. Len(RoundPUCells) : RoundPUCells[k] = r * COLS + c]
      ELSE POWERUP_NONE]] :
    f \in [1 .. Len(RoundPUCells) -> {POWERUP_NONE, POWERUP_BOMB, POWERUP_LINE}]}

InitRound ==
  /\ grid = BoardA
  /\ powerUpGrid \in RoundPowerUps
  /\ score = 0
  /\ timeLeft = GAME_TIME
  /\ timerOn = TRUE
  /\ isProcessing = TRUE
  /\ gameActive = TRUE
  /\ currentScreen = "screen-gameplay"
  /\ pointerDown = FALSE
  /\ start \in {startAt(pt[1], pt[2]) : pt \in DownPoints}
  /\ leaderboard \in Stores
  /\ games = 1
  /\ \E up \in UpPoints :
       LET dx == up[1] - start.x
           dy == up[2] - start.y
           t == swipeTarget(start.row, start.col, dx, dy)
       IN /\ ~isTap(dx, dy)
          /\ ~outOfBounds(t[1], t[2])
          /\ tasks = <<newCall(start.row, start.col, t[1], t[2])>>

NextRound == Resume

SpecRound == InitRound /\ [][NextRound]_vars

(* ---------- initGrid alone, under the wider family of draws ---------- *)
ClickInstructionsWide ==
  /\ currentScreen = "screen-instructions"
  /\ startGameWith(WideInitGrids)

NextInit == ClickStart \/ ClickInstructionsWide

SpecInit == Init /\ [][NextInit]_vars

(* ---------- one round from boards that hold a given region ---------- *)
(* runs of colour 2 laid on a board of alternating colours 0 and 1 *)
HLine(r, c0, n) == {r * COLS + c : c \in c0 .. (c0 + n - 1)}
VLine(c, r0, n) == {r * COLS + c : r \in r0 .. (r0 + n - 1)}

Painted(shape) ==
  [r \in Rows |-> [c \in Cols |-> IF (r * COLS + c) \in shape THEN 2 ELSE (r + c) % 2]]

StraightShapes ==
  {HLine(r, c0, n) : r \in {0, 4, 7}, c0 \in Cols, n \in 3 .. COLS} \cup
  {VLine(c, r0, n) : c \in {0, 3, 5}, r0 \in {0, 1, 5}, n \in 3 .. ROWS}

(* an L, a T or a cross: one horizontal and one vertical run that share a cell *)
CornerShapes ==
  {HLine(3, c0, nh) \cup VLine(c, r0, nv) :
     c0 \in {0, 2}, nh \in {3, 4}, c \in Cols, r0 \in {1, 2, 3}, nv \in {3, 4}}

(* two regions whose power-ups go to the same column *)
TwoRegionShapes ==
  {HLine(0, 0, 6) \cup VLine(3, 2, 4),
   HLine(0, 1, 4) \cup VLine(3, 2, 6),
   HLine(0, 0, 3) \cup VLine(3, 4, 4),
   HLine(1, 0, 5) \cup HLine(3, 0, 4) \cup VLine(5, 4, 4)}

(* two horizontal runs that share no cell, joined by a vertical one; alone and
   beside a second region *)
ChainShapes ==
  {HLine(2, 0, 3) \cup VLine(2, 2, 3) \cup HLine(4, 2, 3),
   HLine(2, 0, 3) \cup VLine(2, 2, 3) \cup HLine(4, 2, 3) \cup VLine(5, 5, 3)}

InBoard(shape) == \A idx \in shape : idx \in Cells

RegionShapes ==
  {sh \in StraightShapes \cup CornerShapes \cup TwoRegionShapes \cup ChainShapes :
     /\ InBoard(sh)
     /\ \A r \in Rows : Cardinality({idx \in sh : RowOf(idx) = r}) \in {0, 1} \cup (3 .. COLS)
     /\ \A c \in Cols : Cardinality({idx \in sh : ColOf(idx) = c}) \in {0, 1} \cup (3 .. ROWS)}

(* power-up layouts: none; a Line on (3,2) and a Bomb on (7,4) *)
RegionPowerUps ==
  {Fill2(POWERUP_NONE),
   [r \in Rows |-> [c \in Cols |->
      IF r = 3 /\ c = 2 THEN POWERUP_LINE
      ELSE IF r = 7 /\ c = 4 THEN POWERUP_BOMB ELSE POWERUP_NONE]]}

(* first rounds: the board before the swap <<r1, c1, r2, c2>> that completes the shape *)
FirstRoundSwaps ==
  {<<4, c, 5, c>> : c \in 1 .. 4} \cup {<<3, c, 4, c>> : c \in 1 .. 4} \cup
  {<<r, 2, r, 3>> : r \in 2 .. 5} \cup {<<r, 1, r, 2>> : r \in 2 .. 5}

FirstRoundShapes == {HLine(4, 1, 3), HLine(4, 1, 4), HLine(4, 0, 5), VLine(2, 2, 3), VLine(2, 2, 4)}

(* the draws under which the constrained fill of initGrid builds the run-free
   board g: for each cell the least draw that picks its colour among those allowed *)
TapeOf(g) ==
  [r \in Rows |-> [c \in Cols |->
     LET avail == safeColorAvail(g, r, c)
         k == CHOOSE j \in 1 .. Len(avail) : avail[j] = g[r][c]
     IN ((k - 1) * RandomRes + Len(avail) - 1) \div Len(avail)]]

(* a board on which the swap of (4,2) and (5,2) completes a run of four 2s in row 4
   and a run of four 0s in row 5 *)
TwoBombBoard ==
  [r \in Rows |-> [c \in Cols |->
     IF r = 4 /\ c \in {0, 1, 3} THEN 2
     ELSE IF r = 4 /\ c = 2 THEN 0
     ELSE IF r = 5 /\ c \in {0, 1, 3} THEN 0
     ELSE IF r = 5 /\ c = 2 THEN 2
     ELSE (r + c) % 2]]

(* the same board as initGrid returns it *)
TwoBombGrids == {initGrid(TapeOf(TwoBombBoard), sh).b.g : sh \in ShuffleTapes}

(* the call of a later round, suspended at delay(ANIM.cascade) after one round *)
laterRound ==
  [pc |-> "cascade", sw |-> <<0, 0, 0, 1>>,
   loc |-> [chain |-> 1, first |-> FALSE, toDestroy |-> {}, pending |-> <<>>,
            draws |-> <<>>],
   result |-> "pending", ticked |-> FALSE,
   pre |-> [g |-> grid, p |-> powerUpGrid, score |-> 0]]

InitRegion ==
  /\ timeLeft = GAME_TIME
  /\ timerOn = TRUE
  /\ isProcessing = TRUE
  /\ gameActive = TRUE
  /\ currentScreen = "screen-gameplay"
  /\ pointerDown = FALSE
  /\ start = [x |-> 0, y |-> 0, row |-> 0, col |-> 0]
  /\ leaderboard \in Stores
  /\ games = 1
  /\ \/ /\ grid \in {Painted(sh) : sh \in RegionShapes}
        /\ powerUpGrid \in RegionPowerUps
        /\ score = 30
        /\ tasks = <<laterRound>>
     \/ /\ powerUpGrid = Fill2(POWERUP_NONE)
        /\ score = 0
        /\ \E sh \in FirstRoundShapes, sw \in FirstRoundSwaps :
             /\ ((sw[1] * COLS + sw[2]) \in sh) # ((sw[3] * COLS + sw[4]) \in sh)
             /\ grid = swapArr(Painted(sh), sw[1], sw[2], sw[3], sw[4])
             /\ findMatches(grid) = {}
             /\ tasks \in {<<newCall(sw[1], sw[2], sw[3], sw[4])>>,
                           <<newCall(sw[3], sw[4], sw[1], sw[2])>>}
     \/ /\ grid \in {BoardA, Painted(HLine(0, 1, 4))}
        /\ powerUpGrid = Fill2(POWERUP_NONE)
        /\ score = 0
        /\ tasks \in {<<newCall(1, 5, 1, 4)>>, <<newCall(5, 2, 5, 3)>>}
     \/ /\ grid \in TwoBombGrids
        /\ powerUpGrid = Fill2(POWERUP_NONE)
        /\ score = 0
        /\ tasks \in {<<newCall(4, 2, 5, 2)>>, <<newCall(5, 2, 4, 2)>>}

NextRegion == Resume

SpecRegion == InitRegion /\ [][NextRegion]_vars

(* ---------- the end of trySwap, statement by statement ---------- *)
(* the test "if (!hasValidMoves())" of trySwap (448) and shuffleGrid (400-419) with
   one step per statement and per turn of its while loop. A call is at
     "movetest"  before the test of 448,
     "permute"   before the Fisher-Yates pass of shuffleGrid,
     "looptest"  before the test of the while loop (414),
     "reroll"    before the body of the while loop (415-417) *)
FisherYatesTapes ==
  {sh.fy : sh \in WideShuffleTapes} \cup {[i \in Cells |-> RandomRes - 1]}

RerollTapes ==
  {RoundA, RoundM} \cup {SeedTape(a, b) : a \in 1 .. SeedsA, b \in {0, 1}}

(* a loop that only asks for a board with no match *)
matchesOnly(b) == findMatches(b.g) # {}

(* the condition of the while loop of shuffleGrid (414) *)
shuffleAgain(b) == findMatches(b.g) # {} \/ ~hasValidMoves(b).ok

(* the board hasValidMoves leaves when the loop condition has called it *)
afterLoopTest(b) == IF findMatches(b.g) # {} THEN b ELSE hasValidMoves(b).b

MoveTest(i) ==
  /\ Running(i) /\ tasks[i].pc = "movetest"
  /\ gameActive
  /\ \E h \in {hasValidMoves(board)} :
        /\ grid' = h.b.g
        /\ powerUpGrid' = h.b.p
        /\ tasks' = setTask(i, IF h.ok THEN "done" ELSE "permute", tasks[i].loc,
                            IF h.ok THEN "resolved" ELSE "pending")
  /\ UNCHANGED <<score, timeLeft, timerOn, isProcessing, gameActive, currentScreen,
                 pointerDown, start, leaderboard, games>>

Permute(i) ==
  /\ Running(i) /\ tasks[i].pc = "permute"
  /\ \E fy \in FisherYatesTapes :
        LET flat == [k \in Cells |-> grid[RowOf(k)][ColOf(k)]]
            perm == fisherYates(flat, ROWS * COLS - 1, fy)
        IN grid' = [r \in Rows |-> [c \in Cols |-> perm[r * COLS + c]]]
  /\ powerUpGrid' = Fill2(POWERUP_NONE)
  /\ tasks' = setTask(i, "looptest", tasks[i].loc, "pending")
  /\ UNCHANGED <<score, timeLeft, timerOn, isProcessing, gameActive, currentScreen,
                 pointerDown, start, leaderboard, games>>

LoopTest(i) ==
  /\ Running(i) /\ tasks[i].pc = "looptest"
  /\ \E again \in {shuffleAgain(board)}, b \in {afterLoopTest(board)} :
        /\ grid' = b.g
        /\ powerUpGrid' = b.p
        /\ tasks' = setTask(i, IF again THEN "reroll" ELSE "done", tasks[i].loc,
                            IF again THEN "pending" ELSE "shuffled")
  /\ UNCHANGED <<score, timeLeft, timerOn, isProcessing, gameActive, currentScreen,
                 pointerDown, start, leaderboard, games>>

RerollWith(i, tape) ==
  /\ Running(i) /\ tasks[i].pc = "reroll"
  /\ grid' = randomGrid(tape)
  /\ tasks' = setTask(i, "looptest", tasks[i].loc, "pending")
  /\ UNCHANGED <<powerUpGrid, score, timeLeft, timerOn, isProcessing, gameActive,
                 currentScreen, pointerDown, start, leaderboard, games>>

Reroll(i) == \E tape \in RerollTapes : RerollWith(i, tape)

(* a call whose processCascades has returned in an active game (445-447) *)
atMoveTest ==
  [pc |-> "movetest", sw |-> <<0, 0, 0, 1>>,
   loc |-> [chain |-> 1, first |-> FALSE, toDestroy |-> {}, pending |-> <<>>,
            draws |-> <<>>],
   result |-> "pending", ticked |-> FALSE, pre |-> Undefined]

InitShuffle ==
  /\ grid \in {BoardA, BoardF}
  /\ powerUpGrid \in RoundPowerUps
  /\ score = 30
  /\ timeLeft = GAME_TIME
  /\ timerOn = TRUE
  /\ isProcessing = FALSE
  /\ gameActive = TRUE
  /\ currentScreen = "screen-gameplay"
  /\ pointerDown = FALSE
  /\ start = [x |-> 0, y |-> 0, row |-> 0, col |-> 0]
  /\ leaderboard \in Stores
  /\ games = 1
  /\ tasks = <<atMoveTest>>

NextShuffle ==
  \E i \in 1 .. MaxCalls :
     \/ MoveTest(i)
     \/ Permute(i)
     \/ LoopTest(i)
     \/ Reroll(i)

SpecShuffle == InitShuffle /\ [][NextShuffle]_vars

(* the draws of RerollTapes after which the loop of shuffleGrid exits *)
PlayableTapes ==
  {tape \in RerollTapes :
     ~shuffleAgain([g |-> randomGrid(tape), p |-> Fill2(POWERUP_NONE)])}

(* a call that is at a test or at the permutation has moved on: these statements
   run synchronously, nothing can hold them up *)
Advance ==
  \E i \in 1 .. MaxCalls :
     /\ Running(i) /\ tasks[i].pc \in {"movetest", "permute", "looptest"}
     /\ tasks' \in {setTask(i, pc, tasks[i].loc, res) :
                      pc \in {"done", "permute", "looptest", "reroll"} \ {tasks[i].pc},
                      res \in {"pending", "resolved", "shuffled"}}

(* a re-draw that gives a board on which the loop exits *)
PlayableDraw == \E i \in 1 .. MaxCalls : \E tape \in PlayableTapes : RerollWith(i, tape)

(* the code keeps running, and what Math.random yields is fair: when a re-draw
   that gives a playable board can be made again and again, it is made *)
SpecShuffleFair ==
  /\ SpecShuffle
  /\ WF_tasks(Advance)
  /\ SF_vars(PlayableDraw)

(* ---------- one move with the countdown running ---------- *)
(* the move of SpecRound made in the last seconds of the game: the timer ticks
   while the call is suspended and ends the game before, during or after it *)
LastSeconds == 2

InitTimed ==
  /\ grid = BoardA
  /\ powerUpGrid \in RoundPowerUps
  /\ score = 0
  /\ timeLeft \in 1 .. LastSeconds
  /\ timerOn = TRUE
  /\ isProcessing = TRUE
  /\ gameActive = TRUE
  /\ currentScreen = "screen-gameplay"
  /\ pointerDown = FALSE
  /\ start \in {startAt(pt[1], pt[2]) : pt \in DownPoints}
  /\ leaderboard \in Stores
  /\ games = 1
  /\ \E up \in UpPoints :
       LET dx == up[1] - start.x
           dy == up[2] - start.y
           t == swipeTarget(start.row, start.col, dx, dy)
       IN /\ ~isTap(dx, dy)
          /\ ~outOfBounds(t[1], t[2])
          /\ tasks = <<newCall(start.row, start.col, t[1], t[2])>>

NextTimed ==
  \/ TimerTick
  \/ Resume

SpecTimed == InitTimed /\ [][NextTimed]_vars

(* the call is held by the bound on the rounds followed: the game is active, the
   board has a match and MaxRounds rounds have run *)
BeyondRounds(i) ==
  /\ tasks[i].pc = "cascade"
  /\ tasks[i].loc.chain >= MaxRounds
  /\ gameActive
  /\ findMatches(grid) # {}

(* a suspended call has resumed: its await point has changed. Every await of
   trySwap and processCascades is on a setTimeout (478, 1023), which fires *)
Resumed ==
  \E i \in 1 .. MaxCalls :
     /\ Running(i) /\ ~BeyondRounds(i)
     /\ \/ tasks' = setTask(i, "done", NoLocals, "resolved")
        \/ tasks'[i].pc # tasks[i].pc

(* the interval callback of the countdown has run *)
Ticked ==
  /\ timerOn /\ \A i \in 1 .. Len(tasks) : ~tasks[i].ticked
  /\ timeLeft' = timeLeft - 1

(* timers are scheduled fairly: a pending timeout fires and the interval keeps
   ticking while it is set *)
SpecTimedFair == SpecTimed /\ WF_tasks(Resumed) /\ WF_timeLeft(Ticked)

(* ---------- the two match detections on boards with holes ---------- *)
(* the cells of H emptied *)
Punched(g, H) ==
  [r \in Rows |-> [c \in Cols |-> IF (r * COLS + c) \in H THEN Empty ELSE g[r][c]]]

(* no hole; three holes in a row and in a column; one hole; a row and a column of
   holes; holes everywhere *)
HolePatterns ==
  {{}, HLine(0, 0, 3), VLine(3, 2, 3), HLine(4, 2, 1), HLine(7, 1, 4) \cup VLine(0, 1, 5),
   HLine(0, 0, COLS) \cup VLine(0, 0, ROWS), 0 .. (ROWS * COLS - 1)}

MatchBoards ==
  {Punched(Painted(sh), H) : sh \in StraightShapes \cup TwoRegionShapes \cup ChainShapes,
                             H \in HolePatterns}

(* a caller about to run both detections on the board *)
atDetect ==
  [pc |-> "detect", sw |-> <<0, 0, 0, 1>>, loc |-> [matched |-> {}, groups |-> <<>>],
   result |-> "pending", ticked |-> FALSE, pre |-> Undefined]

Detect(i) ==
  /\ Running(i) /\ tasks[i].pc = "detect"
  /\ \E m \in {findMatches(grid)}, gs \in {findMatchGroups(grid)} :
        tasks' = [tasks EXCEPT ![i] = [@ EXCEPT !.pc = "detected",
                                                 !.loc = [matched |-> m, groups |-> gs]]]
  /\ UNCHANGED <<grid, powerUpGrid, score, timeLeft, timerOn, isProcessing, gameActive,
                 currentScreen, pointerDown, start, leaderboard, games>>

InitMatch ==
  \/ InitRegion
  \/ /\ timeLeft = GAME_TIME
     /\ timerOn = TRUE
     /\ isProcessing = TRUE
     /\ gameActive = TRUE
     /\ currentScreen = "screen-gameplay"
     /\ pointerDown = FALSE
     /\ start = [x |-> 0, y |-> 0, row |-> 0, col |-> 0]
     /\ leaderboard \in Stores
     /\ games = 1
     /\ grid \in MatchBoards
     /\ powerUpGrid = Fill2(POWERUP_NONE)
     /\ score = 0
     /\ tasks = <<atDetect>>

NextMatch ==
  \/ \E i \in 1 .. MaxCalls : Detect(i)
  \/ Resume

SpecMatch == InitMatch /\ [][NextMatch]_vars

(* ====================== properties ====================== *)
(* the board predicates below are written from the rules of the game, not from
   findMatches and hasValidMoves, so that they can disagree with them *)

(* a horizontal or vertical run of 3 or more equal colours starts at some cell *)
HasRun(g) ==
  \E r \in Rows, c \in Cols :
     /\ g[r][c] # Empty
     /\ \/ c + 2 < COLS /\ g[r][c + 1] = g[r][c] /\ g[r][c + 2] = g[r][c]
        \/ r + 2 < ROWS /\ g[r + 1][c] = g[r][c] /\ g[r + 2][c] = g[r][c]

(* cell (r, c) lies in such a run *)
RunAt(g, r, c) ==
  /\ g[r][c] # Empty
  /\ \/ \E c0 \in Cols : /\ c0 <= c /\ c <= c0 + 2 /\ c0 + 2 < COLS
                         /\ g[r][c0] = g[r][c] /\ g[r][c0 + 1] = g[r][c]
                         /\ g[r][c0 + 2] = g[r][c]
     \/ \E r0 \in Rows : /\ r0 <= r /\ r <= r0 + 2 /\ r0 + 2 < ROWS
                         /\ g[r0][c] = g[r][c] /\ g[r0 + 1][c] = g[r][c]
                         /\ g[r0 + 2][c] = g[r][c]

Swapped(g, r1, c1, r2, c2) ==
  [r \in Rows |-> [c \in Cols |->
     IF r = r1 /\ c = c1 THEN g[r2][c2]
     ELSE IF r = r2 /\ c = c2 THEN g[r1][c1]
     ELSE g[r][c]]]

(* some swap of two 4-adjacent cells creates a run *)
MoveExists(g) ==
  \E r \in Rows, c \in Cols :
     \/ c + 1 < COLS /\ HasRun(Swapped(g, r, c, r, c + 1))
     \/ r + 1 < ROWS /\ HasRun(Swapped(g, r, c, r + 1, c))

AllColours(g) == \A r \in Rows, c \in Cols : g[r][c] \in 0 .. (NUM_COLORS - 1)

(* steps of a trySwap call *)
Completes(i) == tasks[i].pc # "done" /\ tasks'[i].pc = "done"
Resolves(i) == Completes(i) /\ tasks'[i].result # "reverted"
RoundStarts(i) == tasks[i].pc \in {"swap1", "cascade"} /\ tasks'[i].pc \in {"powerup", "pop"}

(* ---------- C1 ---------- *)
(* C1: whenever startGame has run initGrid, every cell holds a colour 0..2 with
   power-up None, the board has no run of 3 or more, and some swap of two adjacent
   cells would create one *)
C1_InitGridPost ==
  [][games' # games =>
       /\ AllColours(grid')
       /\ \A r \in Rows, c \in Cols : powerUpGrid'[r][c] = POWERUP_NONE
       /\ ~HasRun(grid')
       /\ MoveExists(grid')]_vars

(* a game whose board came out of the shuffle: the constrained fill had no move *)
C1_Witness ==
  /\ games = 1
  /\ \E i \in WideInitGrids : i.ok /\ i.shuffled /\ i.b.g = grid

(* ---------- C2 ---------- *)
(* C2: when a trySwap call ends by swapping back, grid and powerUpGrid are those
   of the moment of the call and the score is the score of that moment *)
C2_SwapBackLaw ==
  [][\A i \in 1 .. Len(tasks) :
        (Completes(i) /\ tasks'[i].result = "reverted") =>
           /\ grid' = tasks[i].pre.g
           /\ powerUpGrid' = tasks[i].pre.p
           /\ score' = tasks[i].pre.score]_vars

(* ---------- C3 ---------- *)
(* C3: at most one trySwap call is between its start and its completion *)
C3_OneTrySwap == Cardinality({i \in 1 .. Len(tasks) : tasks[i].pc # "done"}) <= 1

(* ---------- C4 ---------- *)
(* C4, as the code has it: when a trySwap call that went through processCascades
   completes, the board has no run of 3 or more, or the game is no longer active *)
C4_NoRunOrGameOver ==
  [][\A i \in 1 .. Len(tasks) :
        Resolves(i) => (~HasRun(grid') \/ ~gameActive)]_vars

(* C4, as stated: when a trySwap call that went through processCascades
   completes, the board has no run of 3 or more, also when the game has ended *)
C4_NoRunAtReturn ==
  [][\A i \in 1 .. Len(tasks) : Resolves(i) => ~HasRun(grid')]_vars

(* a move resolved by at least one round in a game that is still active *)
C4_Witness ==
  /\ gameActive /\ games = 1 /\ score > 0
  /\ \E i \in 1 .. Len(tasks) : tasks[i].pc = "done" /\ tasks[i].result = "resolved"
  /\ \A i \in 1 .. Len(tasks) : tasks[i].pc = "done"
  /\ ~HasRun(grid)

(* ---------- C5 ---------- *)
(* every call has returned *)
AllReturned == \A j \in 1 .. Len(tasks) : tasks[j].pc = "done"

(* C5: when a trySwap call completes, reverted or resolved, in an active game in
   which no other call is left suspended, some swap of two adjacent cells creates
   a match *)
C5_MoveAfterLastTrySwap ==
  [][\A i \in 1 .. Len(tasks) :
        (Completes(i) /\ gameActive /\ AllReturned') => MoveExists(grid')]_vars

(* the test of 448-451 taken alone: when a call that went through processCascades
   completes while the game is active, some swap of two adjacent cells creates a
   match *)
C5_MoveAfterResolvedActive ==
  [][\A i \in 1 .. Len(tasks) :
        (Resolves(i) /\ gameActive) => MoveExists(grid')]_vars

(* a move after which the board had no move and was reshuffled *)
C5_Witness ==
  /\ gameActive
  /\ \E i \in 1 .. Len(tasks) : tasks[i].pc = "done" /\ tasks[i].result = "shuffled"
  /\ \A i \in 1 .. Len(tasks) : tasks[i].pc = "done"
  /\ MoveExists(grid)

(* ---------- C6 ---------- *)
(* C6: in an active game with no move being resolved the board has no run of 3 or
   more equal colours *)
C6_NoRunWhenIdle == (gameActive /\ ~isProcessing) => ~HasRun(grid)

(* ---------- C7 ---------- *)
(* C7: at every await and in every idle state no cell of grid is Empty: every
   cell holds a colour 0..2 *)
C7_NoEmptyAtAwait == grid # Undefined => AllColours(grid)

(* a call suspended in applyGravityAndFill, after cells were destroyed and refilled *)
C7_Witness ==
  \E i \in 1 .. Len(tasks) : tasks[i].pc = "fall" /\ tasks[i].loc.toDestroy # {}

(* ---------- C8 ---------- *)
(* C8: every call of trySwap is for two in-bounds cells one step apart in a row or
   a column, and changes nothing but isProcessing until its first await; a pointer
   handler has an effect only when isProcessing is false and gameActive is true;
   and a gesture that ends without a call (a tap or an out-of-bounds target) leaves
   grid, powerUpGrid, score and isProcessing unchanged *)
C8_SwapsAdjacentInBounds ==
  [][/\ Len(tasks') > Len(tasks) =>
          LET sw == tasks'[Len(tasks')].sw
          IN /\ sw[1] \in Rows /\ sw[3] \in Rows
             /\ sw[2] \in Cols /\ sw[4] \in Cols
             /\ Abs(sw[1] - sw[3]) + Abs(sw[2] - sw[4]) = 1
             /\ UNCHANGED <<grid, powerUpGrid, score>>
     /\ (pointerDown' # pointerDown \/ start' # start \/ Len(tasks') > Len(tasks)) =>
          ~isProcessing /\ gameActive
     /\ (pointerDown /\ ~pointerDown' /\ Len(tasks') = Len(tasks)) =>
          UNCHANGED <<grid, powerUpGrid, score, isProcessing>>]_vars

(* a swipe from cell (1,5) to the right, out of the grid, was dropped *)
C8_Witness ==
  /\ ~pointerDown
  /\ start.row = 1 /\ start.col = COLS - 1
  /\ tasks = <<>>
  /\ gameActive /\ ~isProcessing

(* ---------- C9 ---------- *)
(* C9: in a round, the destroyed set holds every cell of a run, with every
   destroyed Bomb the in-bounds cells of its 3x3 neighbourhood, and with every
   destroyed Line its whole row and column *)
C9_DestroyedClosed ==
  \A i \in 1 .. Len(tasks) :
     tasks[i].pc \in {"powerup", "pop"} =>
        LET td == tasks[i].loc.toDestroy
        IN /\ \A idx \in Cells : RunAt(grid, RowOf(idx), ColOf(idx)) => idx \in td
           /\ \A idx \in td :
                LET r == RowOf(idx)
                    c == ColOf(idx)
                IN /\ powerUpGrid[r][c] = POWERUP_BOMB =>
                        \A dr \in -1 .. 1, dc \in -1 .. 1 :
                           (r + dr \in Rows /\ c + dc \in Cols) =>
                              ((r + dr) * COLS + (c + dc)) \in td
                   /\ powerUpGrid[r][c] = POWERUP_LINE =>
                        /\ \A cc \in Cols : (r * COLS + cc) \in td
                        /\ \A rr \in Rows : (rr * COLS + c) \in td

(* a matched Bomb at (1,3) sets off the Line at (1,4), which sets off the Bomb at
   (4,4): neither is on a matched cell, and (5,5) goes with the last *)
C9_Witness ==
  /\ powerUpGrid[1][3] = POWERUP_BOMB
  /\ powerUpGrid[1][4] = POWERUP_LINE
  /\ powerUpGrid[4][4] = POWERUP_BOMB
  /\ ~RunAt(grid, 1, 4) /\ ~RunAt(grid, 4, 4) /\ RunAt(grid, 1, 3)
  /\ \E i \in 1 .. Len(tasks) :
        /\ tasks[i].pc = "powerup"
        /\ (5 * COLS + 5) \in tasks[i].loc.toDestroy

(* ---------- C10 ---------- *)
(* C10: the round that starts adds 5 * |destroyed| * (chain + 1) to the score,
   where chain is 1 in the first round of a move and one more than in the round
   before in every later round; 5 cells at chain 1 give 50 and 8 cells at chain 3
   give 160 *)
C10_RoundScore ==
  [][\A i \in 1 .. Len(tasks) :
        RoundStarts(i) =>
           LET chain == tasks'[i].loc.chain
               n == Cardinality(tasks'[i].loc.toDestroy)
           IN /\ chain = (IF tasks[i].pc = "swap1" THEN 1 ELSE tasks[i].loc.chain + 1)
              /\ score' = score + 5 * n * (chain + 1)
              /\ calcScore(1 .. 5, 1) = 50
              /\ calcScore(1 .. 8, 3) = 160]_vars

(* the second round of a move: 7 cells at chain 2, after 4 cells at chain 1 *)
C10_Witness ==
  \E i \in 1 .. Len(tasks) :
     /\ tasks[i].loc.chain = 2
     /\ Cardinality(tasks[i].loc.toDestroy) = 7
     /\ score = 40 + 105

(* ---------- regions of a board, from the rules ---------- *)
(* the cells of row r joined to (r, c) by cells of its colour, and the same in column c *)
HStretch(g, r, c) ==
  {r * COLS + c2 : c2 \in {x \in Cols :
      \A k \in Cols : (Min2(c, x) <= k /\ k <= Max2(c, x)) => g[r][k] = g[r][c]}}
VStretch(g, r, c) ==
  {r2 * COLS + c : r2 \in {x \in Rows :
      \A k \in Rows : (Min2(r, x) <= k /\ k <= Max2(r, x)) => g[k][c] = g[r][c]}}

(* the maximal runs of 3 or more *)
RunsOf(g) ==
  {[cells |-> HStretch(g, r, c), horizontal |-> TRUE] :
      <<r, c>> \in {rc \in Rows \X Cols :
         g[rc[1]][rc[2]] # Empty /\ Cardinality(HStretch(g, rc[1], rc[2])) >= 3}} \cup
  {[cells |-> VStretch(g, r, c), horizontal |-> FALSE] :
      <<r, c>> \in {rc \in Rows \X Cols :
         g[rc[1]][rc[2]] # Empty /\ Cardinality(VStretch(g, rc[1], rc[2])) >= 3}}

(* the runs joined to the runs of S through shared cells *)
RECURSIVE Joined(_, _)
Joined(all, S) ==
  LET more == S \cup {y \in all : \E x \in S : x.cells \cap y.cells # {}}
  IN IF more = S THEN S ELSE Joined(all, more)

(* a region is a set of runs: the regions of the board *)
RegionsOf(g) == LET all == RunsOf(g) IN {Joined(all, {x}) : x \in all}

RegionCells(R) == UNION {x.cells : x \in R}
RegionMaxRun(R) == CHOOSE n \in 3 .. ROWS :
                      /\ \E x \in R : Cardinality(x.cells) = n
                      /\ \A x \in R : Cardinality(x.cells) <= n
RegionBothWays(R) == (\E x \in R : x.horizontal) /\ (\E x \in R : ~x.horizontal)

(* the classification rule, in the order the claim gives it *)
RegionType(R) ==
  IF RegionMaxRun(R) >= 6 \/ (RegionBothWays(R) /\ Cardinality(RegionCells(R)) >= 6)
  THEN POWERUP_LINE
  ELSE IF RegionBothWays(R) \/ RegionMaxRun(R) >= 4 THEN POWERUP_BOMB
  ELSE POWERUP_NONE

PendingOfType(pending, t) == {k \in 1 .. Len(pending) : pending[k].type = t}

(* ---------- C11 ---------- *)
(* C11: the power-ups a round earns are those of its regions under the rule Line
   if maxRunLength >= 6 or (both ways and size >= 6), else Bomb if both ways or
   maxRunLength >= 4, else none: as many pending power-ups of each kind as there
   are regions of that kind; a straight 3 earns nothing, a straight 4 or 5 a
   Bomb, a straight 6 a Line and an L of two 3-runs a Bomb *)
C11_Classification ==
  [][\A i \in 1 .. Len(tasks) :
        RoundStarts(i) =>
           LET pending == tasks'[i].loc.pending
               regions == RegionsOf(grid')
           IN /\ \A t \in {POWERUP_BOMB, POWERUP_LINE} :
                   Cardinality(PendingOfType(pending, t)) =
                   Cardinality({R \in regions : RegionType(R) = t})
              /\ PendingOfType(pending, POWERUP_NONE) = {}
              /\ puTypeOf([maxRunLength |-> 3, isLT |-> FALSE, totalSize |-> 3]) = POWERUP_NONE
              /\ puTypeOf([maxRunLength |-> 4, isLT |-> FALSE, totalSize |-> 4]) = POWERUP_BOMB
              /\ puTypeOf([maxRunLength |-> 5, isLT |-> FALSE, totalSize |-> 5]) = POWERUP_BOMB
              /\ puTypeOf([maxRunLength |-> 6, isLT |-> FALSE, totalSize |-> 6]) = POWERUP_LINE
              /\ puTypeOf([maxRunLength |-> 3, isLT |-> TRUE, totalSize |-> 5]) = POWERUP_BOMB]_vars

(* a round on a T of a 4-run and a 3-run (size 6, no run of 6) earned one Line *)
C11_Witness ==
  /\ grid = Painted(HLine(3, 0, 4) \cup VLine(1, 3, 3))
  /\ \E i \in 1 .. Len(tasks) :
        /\ tasks[i].pc \in {"powerup", "pop"}
        /\ Len(tasks[i].loc.pending) = 1
        /\ tasks[i].loc.pending[1].type = POWERUP_LINE

(* ---------- C12 ---------- *)
(* the element at index m (from 0) of a set of cells taken in ascending order *)
NthCell(S, m) == CHOOSE x \in S : Cardinality({y \in S : y < x}) = m

(* a region of at most one horizontal and one vertical run; its cell list is the
   horizontal run left to right, then the rest of the vertical run top to bottom *)
SimpleRegion(R) ==
  Cardinality({x \in R : x.horizontal}) <= 1 /\ Cardinality({x \in R : ~x.horizontal}) <= 1

MiddleCell(R) ==
  LET H == UNION {x.cells : x \in {y \in R : y.horizontal}}
      V == RegionCells(R) \ H
      m == Cardinality(RegionCells(R)) \div 2
  IN IF m < Cardinality(H) THEN NthCell(H, m) ELSE NthCell(V, m - Cardinality(H))

SpawnColumn(R, first, sw) ==
  IF first /\ (sw[1] * COLS + sw[2]) \in RegionCells(R) THEN sw[2]
  ELSE IF first /\ (sw[3] * COLS + sw[4]) \in RegionCells(R) THEN sw[4]
  ELSE ColOf(MiddleCell(R))

(* C12: a pending power-up goes to the column of a swapped cell when the round is
   the first of its move and the region holds that cell, and in every other case
   to the column of the cell at index floor(n/2) of the region's cell list: for
   every kind and column, as many pending power-ups as regions of that kind with
   that spawn column *)
C12_SpawnColumn ==
  [][\A i \in 1 .. Len(tasks) :
        RoundStarts(i) =>
           LET pending == tasks'[i].loc.pending
               earning == {R \in RegionsOf(grid') : RegionType(R) # POWERUP_NONE}
               first == tasks[i].pc = "swap1"
           IN (\A R \in earning : SimpleRegion(R)) =>
                 \A t \in {POWERUP_BOMB, POWERUP_LINE}, c \in Cols :
                    Cardinality({k \in 1 .. Len(pending) :
                                    pending[k].type = t /\ pending[k].col = c}) =
                    Cardinality({R \in earning :
                                    RegionType(R) = t /\ SpawnColumn(R, first, tasks[i].sw) = c})]_vars

(* a first round whose 4-run in row 4, columns 1..4, was completed by the swapped
   cell in column 2: the Bomb goes to column 2, not to the middle column 3 *)
C12_Witness ==
  /\ grid = Painted(HLine(4, 1, 4))
  /\ \E i \in 1 .. Len(tasks) :
        /\ tasks[i].pc = "pop"
        /\ tasks[i].loc.first
        /\ tasks[i].loc.pending = <<[type |-> POWERUP_BOMB, col |-> 2]>>

(* ---------- the refill, from the rules ---------- *)
(* the step of a call from delay(ANIM.pop) to the await of applyGravityAndFill *)
PopStep(i) == tasks[i].pc = "pop" /\ tasks'[i].pc = "fall"

(* the rows of column c that survive the destruction of td, and the number of
   cells generated at the top of the column *)
SurvivorRows(td, c) == {r \in Rows : (r * COLS + c) \notin td}
NewCount(td, c) == ROWS - Cardinality(SurvivorRows(td, c))

(* the row a survivor of row r lands on: as many survivors below it as before *)
LandingRow(td, r, c) == ROWS - 1 - Cardinality({r2 \in SurvivorRows(td, c) : r2 > r})

(* ---------- C17 ---------- *)
(* C17: in every column the survivors keep their order and their (colour,
   power-up) pairs and fill the bottom rows; none changes column or moves up; the
   rows above them are the newly generated cells *)
C17_CollapseKeepsSurvivors ==
  [][\A i \in 1 .. Len(tasks) :
        PopStep(i) =>
           LET td == tasks[i].loc.toDestroy
           IN \A c \in Cols :
                 /\ \A r \in SurvivorRows(td, c) :
                       LET to == LandingRow(td, r, c)
                       IN /\ to >= r
                          /\ to >= NewCount(td, c)
                          /\ grid'[to][c] = grid[r][c]
                          /\ powerUpGrid'[to][c] = powerUpGrid[r][c]
                 /\ \A r \in Rows :
                       r < NewCount(td, c) =>
                          \A r2 \in SurvivorRows(td, c) : LandingRow(td, r2, c) # r]_vars

(* the 3-run of row 4, columns 1..3, is gone and the Line of (3,2) has come down
   one row with its colour *)
C17_Witness ==
  \E i \in 1 .. Len(tasks) :
     /\ tasks[i].pc = "fall"
     /\ tasks[i].loc.toDestroy = HLine(4, 1, 3)
     /\ powerUpGrid[4][2] = POWERUP_LINE
     /\ powerUpGrid[3][2] = POWERUP_NONE
     /\ grid[4][2] = (3 + 2) % 2

(* ---------- C18 ---------- *)
(* C18: after a refill no newly generated cell has the colour of both cells to
   its left, and none is the middle or the bottom cell of three vertically
   consecutive cells of one colour *)
C18_NewCellsAvoidRuns ==
  [][\A i \in 1 .. Len(tasks) :
        PopStep(i) =>
           LET td == tasks[i].loc.toDestroy
               g == grid'
           IN \A c \in Cols, r \in Rows :
                 r < NewCount(td, c) =>
                    /\ c >= 2 => ~(g[r][c - 1] = g[r][c] /\ g[r][c - 2] = g[r][c])
                    /\ r >= 2 => ~(g[r - 1][c] = g[r][c] /\ g[r - 2][c] = g[r][c])
                    /\ (r >= 1 /\ r + 1 < ROWS) =>
                          ~(g[r - 1][c] = g[r][c] /\ g[r + 1][c] = g[r][c])]_vars

(* a refill in which a new cell had two equal cells to its left and another had
   equal cells above and below it *)
C18_Witness ==
  \E i \in 1 .. Len(tasks) :
     /\ tasks[i].pc = "fall"
     /\ \E c \in Cols, r \in Rows :
           /\ r < NewCount(tasks[i].loc.toDestroy, c)
           /\ c >= 2 /\ grid[r][c - 1] = grid[r][c - 2]
     /\ \E c \in Cols, r \in Rows :
           /\ r < NewCount(tasks[i].loc.toDestroy, c)
           /\ r >= 1 /\ r + 1 < ROWS /\ grid[r - 1][c] = grid[r + 1][c]

(* ---------- C19 ---------- *)
(* the colours left to safeFillColor at cell (2,2) by each choice of the five
   cells it reads: (2,1), (2,0) to the left, (1,2), (0,2) above, (3,2) below;
   Empty included *)
FillNeighbourhoods == [{<<2, 1>>, <<2, 0>>, <<1, 2>>, <<0, 2>>, <<3, 2>>} -> {Empty, 0, 1, 2}]

FillProbe(v) ==
  [r \in Rows |-> [c \in Cols |-> IF <<r, c>> \in DOMAIN v THEN v[<<r, c>>] ELSE Empty]]

AvailNeverEmpty == \A v \in FillNeighbourhoods : Len(safeFillAvail(2, 2, FillProbe(v))) >= 1

(* C19: after a refill every cell holds a colour 0..2, never Empty; the
   exclusions of safeFillColor never rule out all three colours *)
C19_RefillRealColour ==
  [][\A i \in 1 .. Len(tasks) :
        PopStep(i) => (AllColours(grid') /\ AvailNeverEmpty)]_vars

(* a refill in which a new cell had one colour excluded by its left neighbours
   and another by the cells above it, or above and below it: one colour was left *)
C19_Witness ==
  \E i \in 1 .. Len(tasks) :
     /\ tasks[i].pc = "fall"
     /\ \E c \in Cols, r \in Rows :
           /\ r < NewCount(tasks[i].loc.toDestroy, c)
           /\ c >= 2 /\ r >= 1 /\ r + 1 < ROWS
           /\ grid[r][c - 1] = grid[r][c - 2]
           /\ \/ r >= 2 /\ grid[r - 1][c] = grid[r - 2][c]
              \/ r + 1 >= NewCount(tasks[i].loc.toDestroy, c) /\ grid[r - 1][c] = grid[r + 1][c]
           /\ grid[r][c - 1] # grid[r - 1][c]

(* ---------- C20 ---------- *)
(* the pending power-ups that go to row r of column c: those aimed at c with r
   others aimed at c before them in the list *)
PendingFor(pending, r, c) ==
  {j \in 1 .. Len(pending) :
     /\ pending[j].col = c
     /\ Cardinality({j2 \in 1 .. (j - 1) : pending[j2].col = c}) = r}

(* C20: in every column the pending power-ups aimed at it go to the new cells
   from the top down in list order, one each; the other new cells get None and
   the survivors keep their own power-up *)
C20_PendingPowerUps ==
  [][\A i \in 1 .. Len(tasks) :
        PopStep(i) =>
           LET td == tasks[i].loc.toDestroy
               pending == tasks[i].loc.pending
           IN \A c \in Cols, r \in Rows :
                 IF r < NewCount(td, c)
                 THEN IF PendingFor(pending, r, c) = {}
                      THEN powerUpGrid'[r][c] = POWERUP_NONE
                      ELSE \A j \in PendingFor(pending, r, c) :
                              powerUpGrid'[r][c] = pending[j].type
                 ELSE \E r0 \in SurvivorRows(td, c) :
                         /\ LandingRow(td, r0, c) = r
                         /\ powerUpGrid'[r][c] = powerUpGrid[r0][c]]_vars

(* a Bomb and a Line earned for column 3 in one round: the Bomb is on the top
   cell, the Line below it, then None *)
C20_Witness ==
  \E i \in 1 .. Len(tasks) :
     /\ tasks[i].pc = "fall"
     /\ tasks[i].loc.pending = <<[type |-> POWERUP_BOMB, col |-> 3],
                                 [type |-> POWERUP_LINE, col |-> 3]>>
     /\ powerUpGrid[0][3] = POWERUP_BOMB
     /\ powerUpGrid[1][3] = POWERUP_LINE
     /\ powerUpGrid[2][3] = POWERUP_NONE

(* ---------- C14 ---------- *)
(* C14: hasValidMoves is a pure query: whenever the test for a move of trySwap or
   the condition of the loop of shuffleGrid has run, whether it found a move or
   not, grid and powerUpGrid are cell for cell what they were before *)
C14_PureQuery ==
  [][\A i \in 1 .. MaxCalls :
        (i <= Len(tasks) /\ tasks[i].pc \in {"movetest", "looptest"}
           /\ tasks'[i].pc # tasks[i].pc)
        => /\ \A r \in Rows, c \in Cols : grid'[r][c] = grid[r][c]
           /\ \A r \in Rows, c \in Cols : powerUpGrid'[r][c] = powerUpGrid[r][c]]_vars

(* the test has answered "no move" on a board that holds power-ups away from None *)
C14_Witness ==
  /\ \E i \in 1 .. Len(tasks) : tasks[i].pc = "permute"
  /\ \E r \in Rows, c \in Cols : powerUpGrid[r][c] # POWERUP_NONE
  /\ ~MoveExists(grid)

(* ---------- C15 ---------- *)
(* C15: when shuffleGrid returns, every power-up is None, every cell holds a
   colour 0..2, the board has no run of 3 or more, and some swap of two adjacent
   cells would create one *)
C15_ShufflePost ==
  [][\A i \in 1 .. MaxCalls :
        (i <= Len(tasks) /\ Completes(i) /\ tasks'[i].result = "shuffled")
        => /\ \A r \in Rows, c \in Cols : powerUpGrid'[r][c] = POWERUP_NONE
           /\ AllColours(grid')
           /\ ~HasRun(grid')
           /\ MoveExists(grid')]_vars

(* shuffleGrid has returned for a call that began on a board with power-ups *)
C15_Witness ==
  \E i \in 1 .. Len(tasks) :
     /\ tasks[i].pc = "done" /\ tasks[i].result = "shuffled"
     /\ \A r \in Rows, c \in Cols : powerUpGrid[r][c] = POWERUP_NONE
     /\ MoveExists(grid)

(* ---------- C16 ---------- *)
InShuffle == \E i \in 1 .. Len(tasks) : tasks[i].pc \in {"permute", "looptest", "reroll"}

ShuffleExited ==
  /\ \A i \in 1 .. Len(tasks) : tasks[i].pc = "done" /\ tasks[i].result = "shuffled"
  /\ ~HasRun(grid)
  /\ MoveExists(grid)

(* C16: shuffleGrid terminates: once it is entered, under fair draws of colours,
   its loop reaches a board with no run and with a move, and the call returns *)
C16_ShuffleTerminates == InShuffle ~> ShuffleExited

(* the loop has exited on a board that a re-draw produced *)
C16_Witness ==
  /\ \A i \in 1 .. Len(tasks) : tasks[i].pc = "done" /\ tasks[i].result = "shuffled"
  /\ grid \in {randomGrid(tape) : tape \in RerollTapes}

(* ---------- C13 ---------- *)
(* one move run from start to end with nothing in between: the swap, the rounds
   with the fill draws draws[1], draws[2], ..., then the test for a move and the
   shuffle; ok is FALSE when the rounds need more draws than are given *)
RECURSIVE resolveRounds(_, _, _, _, _, _, _)
resolveRounds(b, sc, first, chain, sw, draws, k) ==
  IF findMatchGroups(b.g) = <<>>
  THEN LET h == hasValidMoves(b)
       IN IF h.ok THEN [ok |-> TRUE, b |-> h.b, score |-> sc, chain |-> chain]
          ELSE LET sh == CHOOSE x \in ShuffleTapes : TRUE
               IN [ok |-> TRUE, b |-> shuffleGrid(h.b, sh).b, score |-> sc, chain |-> chain]
  ELSE IF k > Len(draws) THEN [ok |-> FALSE, b |-> b, score |-> sc, chain |-> chain]
  ELSE \* the round, then the next one
       CHOOSE res \in
         {resolveRounds(popAndFill(b, h.toDestroy, h.pending, draws[k]), sc + h.pts,
                        FALSE, h.chain, sw, draws, k + 1) :
            h \in {roundHead(b, first, sw, chain)}} : TRUE

resolveMove(b, sc, sw, draws) ==
  LET b1 == swap(b, sw[1], sw[2], sw[3], sw[4])
  IN IF findMatches(b1.g) = {}
     THEN [ok |-> TRUE, b |-> b, score |-> sc, chain |-> 0]
     ELSE resolveRounds(b1, sc, TRUE, 0, sw, draws, 1)

(* the call's outcome is what the move alone gives from the board and score the
   call found, with the draws the call used *)
AsMoveAlone(i) ==
  \E m \in {resolveMove([g |-> tasks[i].pre.g, p |-> tasks[i].pre.p], tasks[i].pre.score,
                         tasks[i].sw, tasks[i].loc.draws)} :
     /\ m.ok
     /\ grid' = m.b.g
     /\ powerUpGrid' = m.b.p
     /\ score' = m.score
     /\ tasks[i].loc.chain = m.chain

(* C13: determinism: the board, the power-up grid, the chain count and the score
   after a move are fixed by the board and score before it, the move and the
   draws, whenever timer ticks and animations happen. Stated for the calls that
   return in the game they were made in while it is still active *)
C13_Deterministic ==
  [][\A i \in 1 .. MaxCalls :
        (i <= Len(tasks) /\ Completes(i) /\ gameActive' /\ tasks[i].pre.game = games')
        => AsMoveAlone(i)]_vars

(* what does hold: the calls made when no earlier call was suspended, that return
   in the game they were made in while it is active, end as the move run alone *)
C13_DeterministicAlone ==
  [][\A i \in 1 .. MaxCalls :
        (i <= Len(tasks) /\ Completes(i) /\ gameActive' /\ tasks[i].pre.game = games'
           /\ tasks[i].pre.alone)
        => AsMoveAlone(i)]_vars

(* ---------- C21 ---------- *)
(* the cells of S that hold power-up t in p *)
PowerUpCells(p, t, S) == {idx \in S : p[RowOf(idx)][ColOf(idx)] = t}

AllCells == 0 .. (ROWS * COLS - 1)

(* C21: no earned power-up is lost: after the removal and refill of a round the
   board holds, of each kind, the power-ups that were not destroyed plus one for
   each region of the round classified as that kind; the pending power-ups aimed
   at a column are never more than the cells generated in it *)
C21_NoPowerUpLost ==
  [][\A i \in 1 .. Len(tasks) :
        PopStep(i) =>
           LET td == tasks[i].loc.toDestroy
               pending == tasks[i].loc.pending
           IN /\ \A t \in {POWERUP_BOMB, POWERUP_LINE} :
                    Cardinality(PowerUpCells(powerUpGrid', t, AllCells)) =
                      Cardinality(PowerUpCells(powerUpGrid, t, AllCells \ td))
                      + Cardinality({R \in RegionsOf(grid) : RegionType(R) = t})
              /\ \A c \in Cols :
                    Cardinality({j \in 1 .. Len(pending) : pending[j].col = c})
                      <= NewCount(td, c)]_vars

(* a round that earned a power-up has been refilled while a power-up from before
   the round is still on the board and another was destroyed *)
C21_Witness ==
  \E i \in 1 .. Len(tasks) :
     /\ tasks[i].pc = "fall"
     /\ Len(tasks[i].loc.pending) >= 1
     /\ \E idx \in tasks[i].loc.toDestroy : RowOf(idx) = 7 /\ ColOf(idx) = 4
     /\ Cardinality(PowerUpCells(powerUpGrid, POWERUP_LINE, AllCells))
          + Cardinality(PowerUpCells(powerUpGrid, POWERUP_BOMB, AllCells)) >= 2

(* ---------- C22 ---------- *)
(* the pending power-ups of the list aimed at column c *)
AimedAt(pending, c) == {j \in 1 .. Len(pending) : pending[j].col = c}

(* C22: no round produces two pending power-ups with the same spawn column
   ("one per column max", 747) *)
C22_OnePerColumn ==
  [][\A i \in 1 .. Len(tasks) :
        RoundStarts(i) =>
           \A c \in Cols : Cardinality(AimedAt(tasks'[i].loc.pending, c)) <= 1]_vars

(* on the board initGrid built, the swap of (4,2) and (5,2) has earned two Bombs,
   both for column 2, and both are on the board after the refill *)
C22_Witness ==
  \E i \in 1 .. Len(tasks) :
     /\ tasks[i].pc = "fall"
     /\ tasks[i].loc.first
     /\ tasks[i].pre.g = TwoBombBoard
     /\ Cardinality(AimedAt(tasks[i].loc.pending, 2)) = 2
     /\ powerUpGrid[0][2] = POWERUP_BOMB
     /\ powerUpGrid[1][2] = POWERUP_BOMB

(* ---------- C23 ---------- *)
(* the groups linked to those of S by chains of groups sharing a cell *)
RECURSIVE LinkedTo(_, _)
LinkedTo(groups, S) ==
  LET more == S \cup {y \in 1 .. Len(groups) :
                        \E x \in S : Range(groups[x].cells) \cap Range(groups[y].cells) # {}}
  IN IF more = S THEN S ELSE LinkedTo(groups, more)

(* the groups whose cells lie in the region *)
GroupsIn(groups, region) ==
  {x \in 1 .. Len(groups) : Range(groups[x].cells) \subseteq Range(region.cells)}

MergedRight(groups, merged) ==
  /\ \A a, b \in 1 .. Len(merged) :
        a # b => Range(merged[a].cells) \cap Range(merged[b].cells) = {}
  /\ UNION {Range(merged[a].cells) : a \in 1 .. Len(merged)}
       = UNION {Range(groups[x].cells) : x \in 1 .. Len(groups)}
  /\ \A x \in 1 .. Len(groups) :
        \E a \in 1 .. Len(merged) : GroupsIn(groups, merged[a]) = LinkedTo(groups, {x})
  /\ \A a \in 1 .. Len(merged) :
        LET in == GroupsIn(groups, merged[a])
        IN /\ in # {}
           /\ \E x \in in : merged[a].maxRunLength = groups[x].length
           /\ \A x \in in : merged[a].maxRunLength >= groups[x].length
           /\ merged[a].totalSize = Cardinality(Range(merged[a].cells))
           /\ merged[a].totalSize = Len(merged[a].cells)
           /\ merged[a].isLT = ((\E x \in in : groups[x].horizontal)
                                 /\ (\E x \in in : ~groups[x].horizontal))

(* C23: mergeOverlappingGroups ends and returns regions that are pairwise
   disjoint and cover the cells of the groups; two groups are in one region
   exactly when a chain of groups sharing cells links them; maxRunLength is the
   greatest length of the region's groups, totalSize its number of cells, isLT
   whether it holds a horizontal and a vertical group *)
C23_MergeRight ==
  [][\A i \in 1 .. Len(tasks) :
        RoundStarts(i) =>
           \E groups \in {findMatchGroups(grid')} :
              MergedRight(groups, mergeOverlappingGroups(groups))]_vars

(* a round has begun on a board with a region of three groups of which two share
   no cell, beside another region *)
C23_Witness ==
  \E i \in 1 .. Len(tasks) :
     /\ tasks[i].pc \in {"powerup", "pop"}
     /\ \E groups \in {findMatchGroups(grid)} :
           /\ \E x, y \in 1 .. Len(groups) :
                 /\ y \in LinkedTo(groups, {x})
                 /\ Range(groups[x].cells) \cap Range(groups[y].cells) = {}
           /\ \E x, y \in 1 .. Len(groups) : y \notin LinkedTo(groups, {x})

(* ---------- C24 ---------- *)
Detected(i) == tasks[i].pc = "detect" /\ tasks'[i].pc = "detected"
SwapTested(i) == tasks[i].pc = "swap1" /\ tasks'[i].pc # "swap1"

(* C24: findMatches and findMatchGroups agree on every board, holes included: the
   set of the one is the union of the groups of the other, it is the set of cells
   lying in a run of 3 or more, and it holds no Empty cell; so a swap that
   trySwap accepts in an active game starts a cascade round *)
C24_DetectionsAgree ==
  [][\A i \in 1 .. Len(tasks) :
        /\ Detected(i) =>
              LET m == tasks'[i].loc.matched
                  gs == tasks'[i].loc.groups
              IN /\ m = UNION {Range(gs[k].cells) : k \in 1 .. Len(gs)}
                 /\ m = {idx \in AllCells : RunAt(grid, RowOf(idx), ColOf(idx))}
                 /\ \A idx \in m : grid[RowOf(idx)][ColOf(idx)] # Empty
                 /\ (m = {}) = (gs = <<>>)
        /\ (SwapTested(i) /\ gameActive) =>
              IF HasRun(grid')
              THEN tasks'[i].pc \in {"powerup", "pop"} /\ tasks'[i].loc.chain = 1
              ELSE tasks'[i].pc = "swapback"]_vars

(* both detections have run on a board with three Empty cells side by side and
   found the run that is on it *)
C24_Witness ==
  \E i \in 1 .. Len(tasks) :
     /\ tasks[i].pc = "detected"
     /\ tasks[i].loc.matched # {}
     /\ \E r \in Rows, c \in Cols :
           c + 2 < COLS /\ grid[r][c] = Empty /\ grid[r][c + 1] = Empty
                        /\ grid[r][c + 2] = Empty

(* ---------- C25 ---------- *)
(* the blast area of the power-up pu on cell idx *)
BlastArea(pu, idx) ==
  IF pu = POWERUP_BOMB
  THEN {j \in AllCells : Abs(RowOf(j) - RowOf(idx)) <= 1 /\ Abs(ColOf(j) - ColOf(idx)) <= 1}
  ELSE IF pu = POWERUP_LINE
  THEN {j \in AllCells : RowOf(j) = RowOf(idx) \/ ColOf(j) = ColOf(idx)}
  ELSE {}

(* the least set that holds S and, with every power-up cell in it, its blast area *)
RECURSIVE LeastClosed(_, _)
LeastClosed(p, S) ==
  LET more == S \cup UNION {BlastArea(p[RowOf(idx)][ColOf(idx)], idx) : idx \in S}
  IN IF more = S THEN S ELSE LeastClosed(p, more)

MatchedCells(g) == {idx \in AllCells : RunAt(g, RowOf(idx), ColOf(idx))}

(* C25: the destroyed set of a round is the least set that holds the matched
   cells and is closed under activation, so every destroyed cell is matched or in
   the blast area of a destroyed cell that held a power-up before the round; the
   activated set is the set of destroyed cells holding a power-up; the power-ups
   the round earns are not on the board while it activates, so none of them is *)
C25_LeastClosed ==
  [][\A i \in 1 .. Len(tasks) :
        RoundStarts(i) =>
           LET td == tasks'[i].loc.toDestroy
               p == powerUpGrid'
               held == {idx \in td : p[RowOf(idx)][ColOf(idx)] # POWERUP_NONE}
           IN /\ td = LeastClosed(p, MatchedCells(grid'))
              /\ \A idx \in td :
                    \/ idx \in MatchedCells(grid')
                    \/ \E src \in held : idx \in BlastArea(p[RowOf(src)][ColOf(src)], src)
              /\ \E a \in {chainReact(p, allMatchedOf(findMatchGroups(grid'), 1, <<>>))} :
                    /\ a.activated = held
                    /\ Range(a.td) = td
                    /\ Len(a.td) = Cardinality(td)
              /\ (tasks'[i].pc = "powerup") = (held # {})
              /\ \A t \in {POWERUP_BOMB, POWERUP_LINE} :
                    Cardinality(PowerUpCells(p, t, AllCells))
                      = Cardinality(PowerUpCells(powerUpGrid, t, AllCells))]_vars

(* a round that earns a Bomb has set off a power-up that no matched cell holds,
   and a power-up outside every blast area is left alone *)
C25_Witness ==
  \E i \in 1 .. Len(tasks) :
     /\ tasks[i].pc = "powerup"
     /\ Len(tasks[i].loc.pending) >= 1
     /\ \E idx \in tasks[i].loc.toDestroy :
           /\ powerUpGrid[RowOf(idx)][ColOf(idx)] # POWERUP_NONE
           /\ ~RunAt(grid, RowOf(idx), ColOf(idx))
     /\ \E idx \in AllCells \ tasks[i].loc.toDestroy :
           powerUpGrid[RowOf(idx)][ColOf(idx)] # POWERUP_NONE

(* ---------- C26 ---------- *)
Idle == ~isProcessing
HeldByBound == \E i \in 1 .. Len(tasks) : BeyondRounds(i)

(* C26: every accepted move returns the engine to Idle: once trySwap has set
   isProcessing, under fair timers isProcessing becomes false again, whatever the
   refills draw and whenever the countdown ends the game (or the call runs more
   rounds than are followed) *)
C26_ReturnsToIdle == isProcessing ~> (Idle \/ HeldByBound)

(* the engine is idle again after a move that ran a round and was cut short by
   the end of the game *)
C26_Witness ==
  /\ Idle
  /\ ~gameActive
  /\ score > 0
  /\ \E i \in 1 .. Len(tasks) : tasks[i].pc = "done" /\ tasks[i].result = "resolved"

(* ---------- C27 ---------- *)
(* call i, made in an earlier game, resumes from an await in the present one *)
StaleResumes(i) ==
  /\ tasks[i].pc # "done"
  /\ tasks[i].pre.game < games
  /\ tasks'[i].pc # tasks[i].pc

(* C27: a call that was suspended at an await when startGame reset the game does
   not touch the new game: when it resumes, the grid, the power-up grid and the
   score stay as they are *)
C27_StaleCallsInert ==
  [][\A i \in 1 .. Len(tasks) :
        StaleResumes(i) =>
           /\ grid' = grid
           /\ powerUpGrid' = powerUpGrid
           /\ score' = score]_vars

(* ---------- C28 ---------- *)
SavedScores == {leaderboard[k] : k \in 1 .. Len(leaderboard)}

(* pts went through saveScore into the store lb: it is one of the entries, or the
   store holds five entries none of which is lower *)
Recorded(lb, pts) ==
  \/ \E k \in 1 .. Len(lb) : lb[k] = pts
  \/ Len(lb) = 5 /\ \A k \in 1 .. Len(lb) : lb[k] >= pts

(* C28: the score recorded at game end is final: while gameActive is false no
   step changes score (no pending cascade round, pointer event or timer tick),
   and in every state after endGame and before the next startGame the score is
   the value that was passed to saveScore: it is among the stored scores, unless
   five scores at least as high fill the store *)
C28_FinalScore ==
  [][/\ (~gameActive /\ ~gameActive') => score' = score
     /\ (~gameActive' /\ games' >= 1) => Recorded(leaderboard', score')]_vars

(* the game has ended with points on the board while a move was suspended, the
   score has entered a store that was full, and the call has since resumed and
   returned, leaving a run on the board unscored *)
C28_Witness ==
  /\ ~gameActive
  /\ games >= 1
  /\ score > 0
  /\ score \in SavedScores
  /\ Len(leaderboard) = 5
  /\ HasRun(grid)
  /\ \E i \in 1 .. Len(tasks) :
        tasks[i].pc = "done" /\ tasks[i].result = "resolved"

====
